---- MODULE Spec2Model ----
(***************************************************************************)
(* Model of the generative-AI fallback caller of the inventory-recognition *)
(* prototype (src/gemini_utils.py): GeminiUtils.get_available_model,       *)
(* GeminiUtils.generate_content, GeminiUtils.analyze_inventory_item and    *)
(* get_gemini_response.                                                    *)
(*                                                                         *)
(* Python values.  Identifiers (model names, block reasons) and bytes are   *)
(* strings, and None among them is the string "None".  A text that the     *)
(* code formats or passes on (a prompt, an error message) is the tuple of  *)
(* the parts it is put together from; the text of a response is its tuple  *)
(* of characters, so that strip() is computed; None in the place of a text *)
(* is the tuple NoneText.  A dict is a record, an exception is a record    *)
(* [type, msg], and an exception that leaves a function is the record      *)
(* [raised |-> e] in the place of the function's return value.             *)
(***************************************************************************)
EXTENDS Integers, Sequences, FiniteSets, TLC

(***************************************************************************)
(* Bounds.                                                                 *)
(***************************************************************************)
\* Number of entries of the priority list self.models that are kept.
NumModels == 3
\* Number of threads (Streamlit sessions) that call into the module.
NumThreads == 2
\* Documents the store assigns an identifier to in one run of the model.
MaxDocs == 2
\* Readings of the clock in one run of the model.
MaxClock == 2
\* Most boxes the detector returns for one picture.
MaxBoxes == 2
\* Longest list of candidate names given to the matcher.
MaxCandidates == 3
\* FirebaseUtils objects built outside initialize_services.
MaxConnections == 2

None == "None"
NoneText == << None >>

(***************************************************************************)
(* Configuration of GeminiUtils.__init__.                                  *)
(***************************************************************************)
ModelPriority ==
    << "gemini-1.5-flash-002", "gemini-1.5-flash-8b", "gemini-1.5-flash",
       "gemini-1.5-pro-002", "gemini-1.5-pro", "gemini-1.0-pro" >>

\* self.models, cut to the first NumModels entries of the source's list.
models == SubSeq(ModelPriority, 1, NumModels)

N == Len(models)

Threads == 1 .. NumThreads

\* Instance 0 is the GeminiUtils object the application keeps; instance t is
\* the object get_gemini_response constructs in thread t.
Cached == 0
Instances == {Cached} \cup Threads

(***************************************************************************)
(* Inputs and outcomes of the external calls.                              *)
(***************************************************************************)
Prompts == { <<"p1">> }
Descriptions == { <<"taza blanca">> }
\* image_data: None or a JPEG payload.
Images == {None, "JPEG"}

Exceptions ==
    { [type |-> "GoogleAPIError", msg |-> << "503 service unavailable" >>],
      [type |-> "ValueError", msg |-> << "invalid operation" >>] }

WS == {" ", "\n"}
TextBodies == { <<>>, <<" ">>, <<" ", "o", "k", "\n">> }

\* A response of model.generate_content: prompt_feedback.block_reason (None
\* when unset), candidates[0].finish_reason (None when there is no candidate)
\* and text; text_raises says that the text accessor raises TextError.  A
\* response either finished normally and has a text, or was blocked or
\* stopped (or has no candidate) and has no text part to read.
Responses ==
    [ block_reason : {None},
      finish_reason : {"STOP"},
      text : TextBodies,
      text_raises : {FALSE} ]
    \cup
    [ block_reason : {None, "SAFETY"},
      finish_reason : {None, "SAFETY"},
      text : {<<>>},
      text_raises : {TRUE} ]

\* get_available_model reads nothing but response.text.
ProbeResponses ==
    { r \in Responses : r.block_reason = None /\ r.finish_reason # "SAFETY" }

\* The exception the text accessor raises when the response holds no text part.
TextError ==
    [type |-> "ValueError", msg |-> << "response.text needs a valid Part" >>]

\* st.secrets["GEMINI_API_KEY"] when the key is missing.
KeyError == [type |-> "KeyError", msg |-> << "GEMINI_API_KEY" >>]

(***************************************************************************)
(* Python helpers.                                                         *)
(***************************************************************************)
\* bool(v) of an identifier, of bytes or of None.
Truthy(v) == v \notin {None, ""}

\* bool(s) of a response text.
TruthyText(s) == Len(s) > 0

\* str(e)
Str(e) == e.msg

\* isinstance(e, cls): every exception of the model derives from Exception.
IsInstance(e, cls) == cls = "Exception" \/ e.type = cls

RECURSIVE LStrip(_)
LStrip(s) ==
    IF s # <<>> /\ Head(s) \in WS THEN LStrip(Tail(s)) ELSE s

RECURSIVE RStrip(_)
RStrip(s) ==
    IF s # <<>> /\ s[Len(s)] \in WS THEN RStrip(SubSeq(s, 1, Len(s) - 1)) ELSE s

\* str.strip()
Strip(s) == RStrip(LStrip(s))

\* r stands for an exception on its way out, not for a returned value.
IsRaised(r) == "raised" \in DOMAIN r

\* x in self.models
InModels(x) == \E k \in 1 .. N : models[k] = x

\* self.models.index(x), 0-based as in Python; defined when InModels(x).
Index(x) == (CHOOSE k \in 1 .. N : models[k] = x) - 1

(***************************************************************************)
(* Pure parts of generate_content, analyze_inventory_item and              *)
(* get_gemini_response.  A formatted string is the tuple of its parts.     *)
(***************************************************************************)
\* content_parts = [prompt] (+ the image part when image_data is truthy)
ContentParts(p, img) ==
    IF Truthy(img)
    THEN << p, [mime_type |-> "image/jpeg", data |-> img] >>
    ELSE << p >>

NoModelsResult ==
    [ success |-> FALSE,
      error |-> << "No hay modelos de IA disponibles" >>,
      response |-> NoneText ]

BlockedResult(reason) ==
    [ success |-> FALSE,
      error |-> << "Contenido bloqueado: ", reason >>,
      response |-> NoneText ]

SafetyResult ==
    [ success |-> FALSE,
      error |-> << "Respuesta bloqueada por filtros de seguridad" >>,
      response |-> NoneText ]

SuccessResult(text, cur) ==
    [ success |-> TRUE,
      error |-> NoneText,
      response |-> Strip(text),
      model_used |-> cur ]

InvalidResult ==
    [ success |-> FALSE,
      error |-> << "No se genero respuesta valida" >>,
      response |-> NoneText ]

\* ResponseResult with a slip: a text that is blank once stripped is treated
\* as an error of the model instead of being returned.
ResponseResult_RaiseOnBlank(r, cur) ==
    IF Truthy(r.block_reason) THEN BlockedResult(r.block_reason)
    ELSE IF r.finish_reason # None /\ r.finish_reason = "SAFETY" THEN SafetyResult
    ELSE IF r.text_raises THEN [raised |-> TextError]
    ELSE IF TruthyText(Strip(r.text)) THEN SuccessResult(r.text, cur)
    ELSE IF TruthyText(r.text) THEN [raised |-> TextError]
    ELSE InvalidResult

\* ResponseResult with a response that has no usable body handled like an
\* error of the model: it raises, and the handler moves to the next model.
ResponseResult_RaiseOnUnusable(r, cur) ==
    IF Truthy(r.block_reason) THEN [raised |-> TextError]
    ELSE IF r.finish_reason # None /\ r.finish_reason = "SAFETY" THEN [raised |-> TextError]
    ELSE IF r.text_raises THEN [raised |-> TextError]
    ELSE IF TruthyText(r.text) THEN SuccessResult(r.text, cur)
    ELSE [raised |-> TextError]

\* Lines 126-154: what the try body does with a response; cur is the value
\* self.current_model has when line 147 reads it.
ResponseResult(r, cur) ==
    IF Truthy(r.block_reason) THEN BlockedResult(r.block_reason)
    ELSE IF r.finish_reason # None /\ r.finish_reason = "SAFETY" THEN SafetyResult
    ELSE IF r.text_raises THEN [raised |-> TextError]
    ELSE IF TruthyText(r.text) THEN SuccessResult(r.text, cur)
    ELSE InvalidResult

\* The handler of generate_content naming the service's exception class only.
ExceptClause_Narrow == "GoogleAPIError"

\* The class named by "except Exception as e" at line 156.
ExceptClause == "Exception"

\* HandlerAdvances with the bound off by one: the last model is never tried.
HandlerAdvances_StopsEarly(cur) == InModels(cur) /\ Index(cur) < Len(models) - 2

\* Lines 161-163: the handler moves on to another model.
HandlerAdvances(cur) == InModels(cur) /\ Index(cur) < Len(models) - 1

\* NextModel moving two positions on where the list allows it.
NextModel_Skip(cur) ==
    IF Index(cur) + 3 <= Len(models) THEN models[Index(cur) + 3]
    ELSE models[Len(models)]

\* NextModel starting over from the head of the list.
NextModel_Restart(cur) == models[1]

\* NextModel with the index not moved: the failed model is taken again.
NextModel_Same(cur) == models[Index(cur) + 1]

\* Line 164: self.models[current_index + 1] (sequences are 1-based here).
NextModel(cur) == models[(Index(cur) + 1) + 1]

\* ExhaustedResult without the message of the exception.
ExhaustedResult_NoDetail(msg) ==
    [ success |-> FALSE,
      error |-> << "No se pudo conectar con ningun modelo de IA disponible." >>,
      response |-> NoneText ]

\* Lines 168-172.
ExhaustedResult(msg) ==
    [ success |-> FALSE,
      error |-> << "No se pudo conectar con ningun modelo de IA disponible. Ultimo error: " >>
                \o msg,
      response |-> NoneText ]

\* Lines 185-200: the f-string around item_description.
AnalyzePrompt(desc) ==
    << "Analiza este elemento del inventario y proporciona informacion detallada: Descripcion: " >>
    \o desc
    \o << " Por favor, proporciona: 1..7. Responde en formato JSON estructurado." >>

\* analyze_inventory_item turning a failed result into an exception.
AnalyzeReturn_RaiseOnFailure(r) ==
    IF IsRaised(r) \/ r.success THEN r
    ELSE [raised |-> [type |-> "RuntimeError", msg |-> r.error]]

\* Line 202: return self.generate_content(prompt, image_data)
AnalyzeReturn(r) == r

\* Lines 17-20: __init__ turns a KeyError of st.secrets into a ValueError;
\* any other exception leaves __init__ as it is.
InitRaises(e) ==
    IF e.type = "KeyError"
    THEN [ type |-> "ValueError",
           msg |-> << "GEMINI_API_KEY no encontrada en Streamlit secrets. Configurala en .streamlit/secrets.toml" >> ]
    ELSE e

\* Lines 228-234.
InitErrorResult(e) ==
    [ success |-> FALSE,
      error |-> << "Error inicializando Gemini: " >> \o Str(e),
      response |-> NoneText ]

\* The class named by "except Exception as e" at line 228.
ExceptClauseResponse == "Exception"

\* Line 75: the probe accepts the model.
ProbeAccepts(r) == ~r.text_raises /\ TruthyText(r.text)

(***************************************************************************)
(* State.                                                                  *)
(***************************************************************************)
VARIABLES
    current_model,  \* [Instances -> name or None]: self.current_model
    pc,             \* [Threads -> position in the code]
    self,           \* [Threads -> the instance the thread calls into]
    entry,          \* [Threads -> the function the thread's caller invoked]
    args,           \* [Threads -> the arguments of that invocation]
    prompt,         \* generate_content: prompt
    image_data,     \* generate_content: image_data
    model_idx,      \* get_available_model: position of the loop over self.models
    model_name,     \* generate_content: model_name (line 99)
    model,          \* generate_content: the name the local model was built with
    content_parts,  \* generate_content: content_parts
    response,       \* generate_content: response
    exc,            \* the exception on its way to the handler of line 156
    error_msg,      \* generate_content: error_msg
    gc_result,      \* what the outermost generate_content frame returns
    result,         \* what the thread's caller receives
    attempts,       \* history: the models the invocation tried, in order
    start_model,    \* history: self.current_model when the invocation began
    depth,          \* history: recursion depth of generate_content
    last_exc        \* history: the last exception an external operation raised

VARIABLES
    failed_on       \* history: the models whose generation attempt raised on
                    \* the kept instance, over all its invocations

keptVars == << failed_on >>

VARIABLES
    inventory,      \* the Firestore collection 'inventory': [ids -> document data]
    next_doc,       \* how many identifiers the store has assigned
    clock,          \* how many times datetime.now() has been read
    fb_call         \* the last FirebaseUtils operation: its arguments and outcome

storeVars == << inventory, next_doc, clock, fb_call >>

VARIABLES
    m_record,       \* AttributeMatcher: the attribute record
    m_candidates,   \* AttributeMatcher: the candidate names, in order
    m_pc,           \* AttributeMatcher: position in the algorithm
    m_blob,         \* AttributeMatcher: the lower-cased text of the record
    m_i,            \* AttributeMatcher: the candidates scored so far
    m_best,         \* AttributeMatcher: the best candidate so far
    m_best_score,   \* AttributeMatcher: its score
    m_scored,       \* history: the scores computed, in order
    m_result        \* AttributeMatcher: what it returned

matcherVars == << m_record, m_candidates, m_pc, m_blob, m_i, m_best,
                  m_best_score, m_scored, m_result >>

VARIABLES
    yolo_cache,     \* st.cache_resource entry of load_yolo_model
    services_cache, \* st.cache_resource entry of initialize_services
    firebase_apps,  \* how many apps firebase_admin._apps holds
    made,           \* history: how often each expensive thing was built
    session         \* [Sessions -> the browser session and its last script run]

appVars == << yolo_cache, services_cache, firebase_apps, made, session >>

VARIABLES
    cam,            \* streamlit_app.py, camera page: the YOLO analysis of a picture
    bodega          \* app.py: one run of the script

cameraVars == << cam >>
bodegaVars == << bodega >>

instVars == << current_model >>
frameVars == << prompt, image_data, model_idx, model_name, model,
                content_parts, response, exc, error_msg >>
callVars == << self, entry, args >>
histVars == << attempts, start_model, depth, last_exc >>
geminiVars == << instVars, pc, callVars, frameVars, gc_result, result, histVars >>
vars == << geminiVars, keptVars, storeVars, matcherVars, appVars, cameraVars,
          bodegaVars >>
outsideTracked == << storeVars, matcherVars, appVars, cameraVars, bodegaVars >>
outsideGemini == << keptVars, outsideTracked >>
outsideStore == << geminiVars, keptVars, matcherVars, appVars, cameraVars, bodegaVars >>
outsideMatcher == << geminiVars, keptVars, storeVars, appVars, cameraVars, bodegaVars >>
outsideApp == << geminiVars, keptVars, storeVars, matcherVars, cameraVars, bodegaVars >>
outsideCamera == << geminiVars, keptVars, storeVars, matcherVars, appVars, bodegaVars >>
outsideBodega == << geminiVars, keptVars, storeVars, matcherVars, appVars, cameraVars >>

NoExc == [type |-> None, msg |-> NoneText]
NoResponse == [absent |-> TRUE]
NoResult == [pending |-> TRUE]
NoArgs == [text |-> NoneText, image |-> None]
NoCall == [op |-> None]

\* An entry of the history: which loop tried the model ("probe" for
\* get_available_model, "gen" for generate_content), what was sent, and how
\* it ended: "not_built" when GenerativeModel(...) raised, so that no call
\* was made; "raised" when the call raised; "returned" with the response.
Attempt(kind, name, content, out, resp) ==
    [kind |-> kind, model |-> name, content |-> content, out |-> out, resp |-> resp]

\* Line 74: the probe sends the text "Hola" and no image.
ProbeContent == << << "Hola" >> >>

\* No generation attempt has been made on the kept instance.
InitKept == failed_on = {}

InitGemini ==
    /\ current_model = [o \in Instances |-> None]
    /\ pc = [t \in Threads |-> "idle"]
    /\ self = [t \in Threads |-> Cached]
    /\ entry = [t \in Threads |-> None]
    /\ args = [t \in Threads |-> NoArgs]
    /\ prompt = [t \in Threads |-> NoneText]
    /\ image_data = [t \in Threads |-> None]
    /\ model_idx = [t \in Threads |-> 0]
    /\ model_name = [t \in Threads |-> None]
    /\ model = [t \in Threads |-> None]
    /\ content_parts = [t \in Threads |-> <<>>]
    /\ response = [t \in Threads |-> NoResponse]
    /\ exc = [t \in Threads |-> NoExc]
    /\ error_msg = [t \in Threads |-> NoneText]
    /\ gc_result = [t \in Threads |-> NoResult]
    /\ result = [t \in Threads |-> NoResult]
    /\ attempts = [t \in Threads |-> <<>>]
    /\ start_model = [t \in Threads |-> None]
    /\ depth = [t \in Threads |-> 0]
    /\ last_exc = [t \in Threads |-> NoExc]

\* The collection is empty and no operation has been called.
InitStore ==
    /\ inventory = << >>
    /\ next_doc = 0
    /\ clock = 0
    /\ fb_call = NoCall

\* The matcher has not been called.
InitMatcher ==
    /\ m_record = << >>
    /\ m_candidates = << >>
    /\ m_pc = "idle"
    /\ m_blob = << >>
    /\ m_i = 0
    /\ m_best = NoneText
    /\ m_best_score = 0
    /\ m_scored = << >>
    /\ m_result = NoneText

\* A cache entry of st.cache_resource: nothing stored yet, or the value the
\* function returned.
\* The browser sessions running the script; they share the process, and so
\* the caches of st.cache_resource and firebase_admin._apps.
Sessions == { "s1", "s2" }

Miss == [hit |-> FALSE]
Hit(v) == [hit |-> TRUE, value |-> v]

\* A browser session that has not run the script yet.
Closed ==
    [open |-> FALSE, page |-> "Inicio", auto_analyze |-> TRUE, picture |-> FALSE,
     uploaded_file |-> FALSE, text_input |-> FALSE, trigger |-> None, yolo_model |-> None,
     firebase |-> None, gemini |-> None, halted |-> FALSE, shown |-> {},
     offered |-> {}, invoked |-> << >>]

\* The process has started: nothing is cached and no session is open.
InitApp ==
    /\ yolo_cache = Miss
    /\ services_cache = Miss
    /\ firebase_apps = 0
    /\ made = [yolo |-> 0, services |-> 0, firebase |-> 0, gemini |-> 0,
               apps |-> 0, firebase_other |-> 0, gemini_other |-> 0]
    /\ session = [t \in Sessions |-> Closed]

\* No picture is being analysed, and app.py is not running.
InitCamera == cam = [pc |-> "idle"]
InitBodega == bodega = [pc |-> "idle"]

Init ==
    /\ InitGemini /\ InitKept /\ InitStore /\ InitMatcher /\ InitApp
    /\ InitCamera /\ InitBodega

(***************************************************************************)
(* Entry points.                                                           *)
(***************************************************************************)
\* A caller invokes generate_content(p, img) on the kept instance.
Call_generate_content(t) ==
    \E p \in Prompts, img \in Images :
        /\ pc[t] = "idle"
        /\ self' = [self EXCEPT ![t] = Cached]
        /\ entry' = [entry EXCEPT ![t] = "generate_content"]
        /\ args' = [args EXCEPT ![t] = [text |-> p, image |-> img]]
        /\ prompt' = [prompt EXCEPT ![t] = p]
        /\ image_data' = [image_data EXCEPT ![t] = img]
        /\ start_model' = [start_model EXCEPT ![t] = current_model[Cached]]
        /\ pc' = [pc EXCEPT ![t] = "L98"]
        /\ UNCHANGED << instVars, model_idx, model_name, model, content_parts,
                        response, exc, error_msg, gc_result, result, attempts,
                        depth, last_exc >>

\* A caller invokes analyze_inventory_item(d, img) on the kept instance:
\* lines 185-202 build the prompt and call generate_content(prompt, image_data).
Call_analyze_inventory_item(t) ==
    \E d \in Descriptions, img \in Images :
        /\ pc[t] = "idle"
        /\ self' = [self EXCEPT ![t] = Cached]
        /\ entry' = [entry EXCEPT ![t] = "analyze_inventory_item"]
        /\ args' = [args EXCEPT ![t] = [text |-> d, image |-> img]]
        /\ prompt' = [prompt EXCEPT ![t] = AnalyzePrompt(d)]
        /\ image_data' = [image_data EXCEPT ![t] = img]
        /\ start_model' = [start_model EXCEPT ![t] = current_model[Cached]]
        /\ pc' = [pc EXCEPT ![t] = "L98"]
        /\ UNCHANGED << instVars, model_idx, model_name, model, content_parts,
                        response, exc, error_msg, gc_result, result, attempts,
                        depth, last_exc >>

\* get_gemini_response(p, img), lines 225-227: GeminiUtils() succeeds and
\* generate_content is called on the new instance.
Call_get_gemini_response(t) ==
    \E p \in Prompts, img \in Images :
        /\ pc[t] = "idle"
        /\ current_model' = [current_model EXCEPT ![t] = None]
        /\ self' = [self EXCEPT ![t] = t]
        /\ entry' = [entry EXCEPT ![t] = "get_gemini_response"]
        /\ args' = [args EXCEPT ![t] = [text |-> p, image |-> img]]
        /\ prompt' = [prompt EXCEPT ![t] = p]
        /\ image_data' = [image_data EXCEPT ![t] = img]
        /\ start_model' = [start_model EXCEPT ![t] = None]
        /\ pc' = [pc EXCEPT ![t] = "L98"]
        /\ UNCHANGED << model_idx, model_name, model, content_parts,
                        response, exc, error_msg, gc_result, result, attempts,
                        depth, last_exc >>

\* get_gemini_response(p, img), lines 225-234: GeminiUtils() raises (the key
\* is missing, or reading the secrets or genai.configure fails).
Call_get_gemini_response_InitFails(t) ==
    \E p \in Prompts, img \in Images, e \in {KeyError} \cup Exceptions :
        /\ pc[t] = "idle"
        /\ self' = [self EXCEPT ![t] = t]
        /\ entry' = [entry EXCEPT ![t] = "get_gemini_response"]
        /\ args' = [args EXCEPT ![t] = [text |-> p, image |-> img]]
        /\ last_exc' = [last_exc EXCEPT ![t] = InitRaises(e)]
        /\ result' = [result EXCEPT ![t] =
                        IF IsInstance(InitRaises(e), ExceptClauseResponse)
                        THEN InitErrorResult(InitRaises(e))
                        ELSE [raised |-> InitRaises(e)]]
        /\ pc' = [pc EXCEPT ![t] = "done"]
        /\ UNCHANGED << instVars, frameVars, gc_result, attempts, start_model,
                        depth >>

(***************************************************************************)
(* generate_content and get_available_model.                               *)
(***************************************************************************)
\* What the thread's caller receives when the outermost generate_content
\* frame returns r (or lets an exception out): line 202 of
\* analyze_inventory_item, lines 227-234 of get_gemini_response, or r itself.
CallerReceives(ent, r) ==
    IF ent = "analyze_inventory_item" THEN AnalyzeReturn(r)
    ELSE IF /\ ent = "get_gemini_response"
            /\ IsRaised(r)
            /\ IsInstance(r.raised, ExceptClauseResponse)
    THEN InitErrorResult(r.raised)
    ELSE r

\* return r, from whatever depth: every frame above returns it unchanged.
Return(t, r) ==
    /\ gc_result' = [gc_result EXCEPT ![t] = r]
    /\ result' = [result EXCEPT ![t] = CallerReceives(entry[t], r)]
    /\ pc' = [pc EXCEPT ![t] = "done"]

\* Line 98: if not self.current_model
CheckModel(t) ==
    /\ pc[t] = "L98"
    /\ IF ~Truthy(current_model[self[t]])
       THEN /\ pc' = [pc EXCEPT ![t] = "probe"]
            /\ model_idx' = [model_idx EXCEPT ![t] = 1]
       ELSE /\ pc' = [pc EXCEPT ![t] = "L108"]
            /\ UNCHANGED model_idx
    /\ UNCHANGED << instVars, callVars, prompt, image_data, model_name, model,
                    content_parts, response, exc, error_msg, gc_result,
                    result, histVars >>

\* Lines 66-81: one iteration of the loop of get_available_model.
Probe(t) ==
    /\ pc[t] = "probe"
    /\ model_idx[t] <= Len(models)
    /\ LET name == models[model_idx[t]]
           log(content, out, resp) ==
               attempts' = [attempts EXCEPT ![t] =
                              Append(@, Attempt("probe", name, content, out, resp))]
           continue ==
               /\ model_idx' = [model_idx EXCEPT ![t] = @ + 1]
               /\ UNCHANGED << current_model, model_name, pc >>
       IN  \/ \E e \in Exceptions :        \* GenerativeModel(...) raises
                /\ log(<<>>, "not_built", NoResponse)
                /\ last_exc' = [last_exc EXCEPT ![t] = e]
                /\ continue
           \/ \E e \in Exceptions :        \* model.generate_content("Hola") raises
                /\ log(ProbeContent, "raised", NoResponse)
                /\ last_exc' = [last_exc EXCEPT ![t] = e]
                /\ continue
           \/ \E r \in ProbeResponses :
                /\ log(ProbeContent, "returned", r)
                /\ IF r.text_raises
                   THEN /\ last_exc' = [last_exc EXCEPT ![t] = TextError]
                        /\ continue
                   ELSE IF ProbeAccepts(r)
                   THEN /\ current_model' = [current_model EXCEPT ![self[t]] = name]
                        /\ model_name' = [model_name EXCEPT ![t] = name]
                        /\ pc' = [pc EXCEPT ![t] = "L108"]
                        /\ UNCHANGED << model_idx, last_exc >>
                   ELSE /\ continue
                        /\ UNCHANGED last_exc
    /\ UNCHANGED << callVars, prompt, image_data, model, content_parts,
                    response, exc, error_msg, gc_result, result, start_model,
                    depth >>

\* Line 83 and lines 100-105: no model answered the probe.
ProbeExhausted(t) ==
    /\ pc[t] = "probe"
    /\ model_idx[t] > Len(models)
    /\ model_name' = [model_name EXCEPT ![t] = None]
    /\ Return(t, NoModelsResult)
    /\ UNCHANGED << instVars, callVars, prompt, image_data, model_idx, model,
                    content_parts, response, exc, error_msg, histVars >>

\* Lines 108-120: build the model from self.current_model and the content.
Build(t) ==
    /\ pc[t] = "L108"
    /\ \/ /\ model' = [model EXCEPT ![t] = current_model[self[t]]]
          /\ content_parts' = [content_parts EXCEPT ![t] =
                                 ContentParts(prompt[t], image_data[t])]
          /\ pc' = [pc EXCEPT ![t] = "L123"]
          /\ UNCHANGED << exc, last_exc, attempts >>
       \/ \E e \in Exceptions :
            /\ attempts' = [attempts EXCEPT ![t] =
                  Append(@, Attempt("gen", current_model[self[t]], <<>>,
                                    "not_built", NoResponse))]
            /\ exc' = [exc EXCEPT ![t] = e]
            /\ last_exc' = [last_exc EXCEPT ![t] = e]
            /\ pc' = [pc EXCEPT ![t] = "except"]
            /\ UNCHANGED << model, content_parts >>
    /\ UNCHANGED << instVars, callVars, prompt, image_data, model_idx,
                    model_name, response, error_msg, gc_result, result,
                    start_model, depth >>

\* Line 123: response = model.generate_content(content_parts)
Generate(t) ==
    /\ pc[t] = "L123"
    /\ \/ \E e \in Exceptions :
            /\ attempts' = [attempts EXCEPT ![t] =
                  Append(@, Attempt("gen", model[t], content_parts[t],
                                    "raised", NoResponse))]
            /\ exc' = [exc EXCEPT ![t] = e]
            /\ last_exc' = [last_exc EXCEPT ![t] = e]
            /\ pc' = [pc EXCEPT ![t] = "except"]
            /\ UNCHANGED response
       \/ \E r \in Responses :
            /\ attempts' = [attempts EXCEPT ![t] =
                  Append(@, Attempt("gen", model[t], content_parts[t],
                                    "returned", r))]
            /\ response' = [response EXCEPT ![t] = r]
            /\ pc' = [pc EXCEPT ![t] = "L126"]
            /\ UNCHANGED << exc, last_exc >>
    /\ UNCHANGED << instVars, callVars, prompt, image_data, model_idx,
                    model_name, model, content_parts, error_msg, gc_result,
                    result, start_model, depth >>

\* Lines 126-154: the response becomes the frame's return value, unless
\* reading it raises.
CheckResponse(t) ==
    /\ pc[t] = "L126"
    /\ LET res == ResponseResult(response[t], current_model[self[t]])
       IN  IF IsRaised(res)
           THEN /\ exc' = [exc EXCEPT ![t] = res.raised]
                /\ last_exc' = [last_exc EXCEPT ![t] = res.raised]
                /\ pc' = [pc EXCEPT ![t] = "except"]
                /\ UNCHANGED << gc_result, result >>
           ELSE /\ Return(t, res)
                /\ UNCHANGED << exc, last_exc >>
    /\ UNCHANGED << instVars, callVars, prompt, image_data, model_idx,
                    model_name, model, content_parts, response, error_msg,
                    attempts, start_model, depth >>

\* Lines 156-172: the handler.  It either moves self.current_model one
\* position on and calls generate_content again (a new frame, whose return
\* value every frame above returns unchanged), or returns the error result.
\* An exception the clause does not name leaves generate_content.
ExceptHandler(t) ==
    /\ pc[t] = "except"
    /\ LET e == exc[t]
           cur == current_model[self[t]]
       IN  IF ~IsInstance(e, ExceptClause)
           THEN /\ Return(t, [raised |-> e])
                /\ UNCHANGED << current_model, error_msg, depth, model_idx,
                                model_name, model, content_parts, response, exc >>
           ELSE IF HandlerAdvances(cur)
           THEN /\ current_model' = [current_model EXCEPT ![self[t]] = NextModel(cur)]
                /\ depth' = [depth EXCEPT ![t] = @ + 1]
                /\ pc' = [pc EXCEPT ![t] = "L98"]
                \* the locals of the new frame
                /\ model_idx' = [model_idx EXCEPT ![t] = 0]
                /\ model_name' = [model_name EXCEPT ![t] = None]
                /\ model' = [model EXCEPT ![t] = None]
                /\ content_parts' = [content_parts EXCEPT ![t] = <<>>]
                /\ response' = [response EXCEPT ![t] = NoResponse]
                /\ exc' = [exc EXCEPT ![t] = NoExc]
                /\ error_msg' = [error_msg EXCEPT ![t] = NoneText]
                /\ UNCHANGED << gc_result, result >>
           ELSE /\ error_msg' = [error_msg EXCEPT ![t] = Str(e)]
                /\ Return(t, ExhaustedResult(Str(e)))
                /\ UNCHANGED << current_model, depth, model_idx, model_name,
                                model, content_parts, response, exc >>
    /\ UNCHANGED << callVars, prompt, image_data, attempts, start_model,
                    last_exc >>

\* The caller has the result; the thread is free for the next invocation.
\* The instance get_gemini_response built is dropped with its frame.
Finish(t) ==
    /\ pc[t] = "done"
    /\ pc' = [pc EXCEPT ![t] = "idle"]
    /\ current_model' = IF entry[t] = "get_gemini_response"
                        THEN [current_model EXCEPT ![t] = None]
                        ELSE current_model
    /\ self' = [self EXCEPT ![t] = Cached]
    /\ entry' = [entry EXCEPT ![t] = None]
    /\ args' = [args EXCEPT ![t] = NoArgs]
    /\ prompt' = [prompt EXCEPT ![t] = NoneText]
    /\ image_data' = [image_data EXCEPT ![t] = None]
    /\ model_idx' = [model_idx EXCEPT ![t] = 0]
    /\ model_name' = [model_name EXCEPT ![t] = None]
    /\ model' = [model EXCEPT ![t] = None]
    /\ content_parts' = [content_parts EXCEPT ![t] = <<>>]
    /\ response' = [response EXCEPT ![t] = NoResponse]
    /\ exc' = [exc EXCEPT ![t] = NoExc]
    /\ error_msg' = [error_msg EXCEPT ![t] = NoneText]
    /\ gc_result' = [gc_result EXCEPT ![t] = NoResult]
    /\ result' = [result EXCEPT ![t] = NoResult]
    /\ attempts' = [attempts EXCEPT ![t] = <<>>]
    /\ start_model' = [start_model EXCEPT ![t] = None]
    /\ depth' = [depth EXCEPT ![t] = 0]
    /\ last_exc' = [last_exc EXCEPT ![t] = NoExc]

(***************************************************************************)
(* Specification: the application is single-threaded (spec section 5), so  *)
(* an invocation begins only when no other is in progress.                 *)
(***************************************************************************)
NoneRunning == \A u \in Threads : pc[u] = "idle"

Next ==
    \E t \in Threads :
        \/ NoneRunning /\ Call_generate_content(t) /\ UNCHANGED outsideGemini
        \/ NoneRunning /\ Call_analyze_inventory_item(t) /\ UNCHANGED outsideGemini
        \/ NoneRunning /\ Call_get_gemini_response(t) /\ UNCHANGED outsideGemini
        \/ NoneRunning /\ Call_get_gemini_response_InitFails(t) /\ UNCHANGED outsideGemini
        \/ CheckModel(t) /\ UNCHANGED outsideGemini
        \/ Probe(t) /\ UNCHANGED outsideGemini
        \/ ProbeExhausted(t) /\ UNCHANGED outsideGemini
        \/ Build(t) /\ UNCHANGED outsideGemini
        \/ Generate(t) /\ UNCHANGED outsideGemini
        \/ CheckResponse(t) /\ UNCHANGED outsideGemini
        \/ ExceptHandler(t) /\ UNCHANGED outsideGemini
        \/ Finish(t) /\ UNCHANGED outsideGemini

Spec == Init /\ [][Next]_vars

\* A step of a running invocation.
RunStep(t) ==
    /\ \/ CheckModel(t)
       \/ Probe(t)
       \/ ProbeExhausted(t)
       \/ Build(t)
       \/ Generate(t)
       \/ CheckResponse(t)
       \/ ExceptHandler(t)
    /\ UNCHANGED outsideGemini

\* The thread that runs an invocation keeps running, and every external
\* call it makes comes back with an outcome (a response or an exception).
FairSpec == Spec /\ WF_vars(\E t \in Threads : RunStep(t))

\* The history of the kept instance: an exception that takes the generation
\* path (lines 108-154) to the handler of line 156 is recorded for the model
\* the attempt was on.
GenFailed(t) ==
    IF self[t] # Cached THEN {}
    ELSE IF pc[t] = "L108" /\ pc'[t] = "except" THEN { current_model[Cached] }
    ELSE IF pc[t] \in { "L123", "L126" } /\ pc'[t] = "except" THEN { model[t] }
    ELSE {}

Track(t) == failed_on' = failed_on \cup GenFailed(t)

\* Lines 66-81: a probe that raised, or whose text was empty, is a call of
\* the model that failed as well.
ProbeFailed(t) ==
    IF /\ self[t] = Cached
       /\ pc[t] = "probe"
       /\ Len(attempts'[t]) > Len(attempts[t])
    THEN LET a == attempts'[t][Len(attempts'[t])]
         IN  IF a.out = "raised" \/ (a.out = "returned" /\ ~ProbeAccepts(a.resp))
             THEN { a.model }
             ELSE {}
    ELSE {}

\* The history with the probes: every model some invocation has called and
\* seen fail.
TrackCalls(t) == failed_on' = failed_on \cup GenFailed(t) \cup ProbeFailed(t)

\* The invocations on the kept instance, one after the other, with the
\* history of the models that failed.
TrackedNext ==
    \E t \in Threads :
        \/ NoneRunning /\ Call_generate_content(t) /\ Track(t) /\ UNCHANGED outsideTracked
        \/ NoneRunning /\ Call_analyze_inventory_item(t) /\ Track(t)
              /\ UNCHANGED outsideTracked
        \/ CheckModel(t) /\ Track(t) /\ UNCHANGED outsideTracked
        \/ Probe(t) /\ Track(t) /\ UNCHANGED outsideTracked
        \/ ProbeExhausted(t) /\ Track(t) /\ UNCHANGED outsideTracked
        \/ Build(t) /\ Track(t) /\ UNCHANGED outsideTracked
        \/ Generate(t) /\ Track(t) /\ UNCHANGED outsideTracked
        \/ CheckResponse(t) /\ Track(t) /\ UNCHANGED outsideTracked
        \/ ExceptHandler(t) /\ Track(t) /\ UNCHANGED outsideTracked
        \/ Finish(t) /\ Track(t) /\ UNCHANGED outsideTracked

TrackedSpec == Init /\ [][TrackedNext]_vars

\* Two sessions call generate_content on the kept instance at the same
\* time (streamlit_app.py lines 83-96: every session gets the one cached
\* GeminiUtils, and Streamlit runs each session's script in a thread of its
\* own), their steps interleaved at every read and write of current_model.
Racers == { 1, 2 }

\* The outcomes followed for the two invocations: no image, every model
\* built, and each call raising the service's error or returning a text.
Plain(t) ==
    /\ image_data'[t] = None
    /\ last_exc'[t] \in { NoExc, [type |-> "GoogleAPIError",
                                  msg |-> << "503 service unavailable" >>] }
    /\ \A k \in 1 .. Len(attempts'[t]) :
          LET a == attempts'[t][k]
          IN  /\ a.out # "not_built"
              /\ a.out = "returned" => a.resp.text = << " ", "o", "k", "\n" >>

ConcurrentNext ==
    \E t \in Racers :
        \/ Call_generate_content(t) /\ Plain(t) /\ TrackCalls(t) /\ UNCHANGED outsideTracked
        \/ CheckModel(t) /\ TrackCalls(t) /\ UNCHANGED outsideTracked
        \/ Probe(t) /\ Plain(t) /\ TrackCalls(t) /\ UNCHANGED outsideTracked
        \/ ProbeExhausted(t) /\ TrackCalls(t) /\ UNCHANGED outsideTracked
        \/ Build(t) /\ Plain(t) /\ TrackCalls(t) /\ UNCHANGED outsideTracked
        \/ Generate(t) /\ Plain(t) /\ TrackCalls(t) /\ UNCHANGED outsideTracked
        \/ CheckResponse(t) /\ TrackCalls(t) /\ UNCHANGED outsideTracked
        \/ ExceptHandler(t) /\ TrackCalls(t) /\ UNCHANGED outsideTracked
        \/ Finish(t) /\ TrackCalls(t) /\ UNCHANGED outsideTracked

ConcurrentSpec == Init /\ [][ConcurrentNext]_vars

(***************************************************************************)
(* FirebaseUtils (src/firebase_utils.py) over the Firestore collection     *)
(* 'inventory'.  A Python dict is a TLA+ record; a text that the code      *)
(* compares character by character (the 'description' field and the search *)
(* term) is a tuple of characters.  An operation is one step: its single   *)
(* store call either completes or raises, and the handler of the operation *)
(* acts on the exception.                                                  *)
(***************************************************************************)
\* Line 60: datetime.now().isoformat() at the n-th reading of the clock.
IsoFormat(n) == "2025-01-01T00:00:0" \o ToString(n)

\* The identifier the store assigns to the n-th document it creates.
AutoId(n) == "doc" \o ToString(n)
DocIds == { AutoId(n) : n \in 1 .. MaxDocs }
DocNum(id) == CHOOSE n \in 1 .. MaxDocs : AutoId(n) = id

\* item_id arguments: assigned identifiers and one the store never assigned.
ItemIds == DocIds \cup { "zzz" }

\* item_data arguments of add_inventory_item: without a timestamp, with one,
\* and with an 'id' field naming a document and a timestamp that is not
\* ISO-8601.
ItemData ==
    { [description |-> << "t", "a", "z", "a" >>],
      [description |-> << "t", "a" >>, timestamp |-> "2024-12-31T23:59:59"],
      [description |-> << "p" >>, id |-> AutoId(1), timestamp |-> "ayer"] }

\* update_data arguments of update_inventory_item.
UpdateData == { [description |-> << "t", "a", "z" >>, cantidad |-> "2"] }

\* search_term arguments of search_inventory.
SearchTerms == { << "t" >>, << "t", "a", "z" >>, << "z" >> }

\* Line 86: limit: int = 100.
DefaultLimit == 100
Limits == { 1, DefaultLimit }

\* What a store call raises when the service fails, and what update raises
\* for a document that does not exist.
StoreError == [type |-> "ServiceUnavailable", msg |-> << "503 unavailable" >>]
NotFound == [type |-> "NotFound", msg |-> << "404 no document to update" >>]
\* Line 224: DocumentSnapshot.get takes the field path only.
SnapshotGetError ==
    [type |-> "TypeError", msg |-> << "get() takes 2 positional arguments but 3 were given" >>]

\* How an operation ends: by a return statement or by an exception.
Raised(e) == [raised |-> e]
Returned(v) == [value |-> v]

\* The handlers that let the exception go on as a returned value instead.
Reraise_Swallow(e) == Returned(None)

\* Lines 82-84, 100-102, 125-127, 146-148, 165-167, 208-210, 246-248:
\* except Exception as e: logger.error(...); raise
Reraise(e) == Raised(e)

\* d[key] = value on a dict.
SetItem(d, key, value) ==
    [k \in DOMAIN d \cup {key} |-> IF k = key THEN value ELSE d[k]]

\* dict.update(u)
Merge(d, u) ==
    [k \in DOMAIN d \cup DOMAIN u |-> IF k \in DOMAIN u THEN u[k] ELSE d[k]]

\* The timestamp step overwriting what the caller supplied.
WithTimestamp_Overwrite(item_data, now) == SetItem(item_data, "timestamp", now)

\* The timestamp step left out.
WithTimestamp_Never(item_data, now) == item_data

\* Lines 74-75: if 'timestamp' not in item_data: item_data['timestamp'] = ...
WithTimestamp(item_data, now) ==
    IF "timestamp" \notin DOMAIN item_data
    THEN SetItem(item_data, "timestamp", now)
    ELSE item_data

\* A document snapshot of the collection c.
Snapshot(c, id) == [id |-> id, data |-> c[id]]

\* The add writing under the 'id' field of the data when it has one.
AddTarget_UsesIdField(data, n) ==
    IF "id" \in DOMAIN data THEN data.id ELSE AutoId(n)

\* Line 78: collection('inventory').add(item_data): the document is created
\* under an identifier the store generates.
AddTarget(data, n) == AutoId(n)

\* The collection after the write of line 78.
AddDocument(c, id, data) ==
    [k \in DOMAIN c \cup {id} |-> IF k = id THEN data ELSE c[k]]

\* The delete removing nothing.
DeleteDocument_Keeps(c, id) == c

\* The delete that empties the collection.
DeleteDocument_All(c, id) == << >>

\* Line 161: document(item_id).delete(); deleting a document that does not
\* exist succeeds and changes nothing.
DeleteDocument(c, id) == [k \in DOMAIN c \ {id} |-> c[k]]

\* Order of the timestamps as strings.
TimestampOrder ==
    << "2024-12-31T23:59:59" >> \o [n \in 1 .. MaxClock + 1 |-> IsoFormat(n)] \o << "ayer" >>
TsRank(ts) == CHOOSE i \in 1 .. Len(TimestampOrder) : TimestampOrder[i] = ts

\* Order of the characters, U+F8FF above all of them.
Alphabet == << "a", "p", "t", "z", "U+F8FF" >>
ChRank(ch) == CHOOSE i \in 1 .. Len(Alphabet) : Alphabet[i] = ch

\* a <= b on strings, as Firestore (and Python) order them.
RECURSIVE StrLE(_, _)
StrLE(a, b) ==
    IF Len(a) = 0 THEN TRUE
    ELSE IF Len(b) = 0 THEN FALSE
    ELSE IF ChRank(a[1]) < ChRank(b[1]) THEN TRUE
    ELSE IF ChRank(a[1]) > ChRank(b[1]) THEN FALSE
    ELSE StrLE(Tail(a), Tail(b))

TimestampKey(d) == TsRank(d.timestamp)

\* The documents of ids, greatest timestamp first; equal timestamps by
\* document identifier.
RECURSIVE DescendingByTimestamp(_, _)
DescendingByTimestamp(c, ids) ==
    IF ids = {} THEN << >>
    ELSE LET top == CHOOSE i \in ids :
                      \A j \in ids :
                          \/ TimestampKey(c[j]) < TimestampKey(c[i])
                          \/ /\ TimestampKey(c[j]) = TimestampKey(c[i])
                             /\ DocNum(j) <= DocNum(i)
         IN  << Snapshot(c, top) >> \o DescendingByTimestamp(c, ids \ {top})

\* Line 97: order_by('timestamp', DESCENDING).limit(limit).stream(): the
\* documents that have the field, newest first, at most limit of them.
QueryByTimestamp(c, limit) ==
    LET ids == { i \in DOMAIN c : "timestamp" \in DOMAIN c[i] }
        all == DescendingByTimestamp(c, ids)
    IN  IF Len(all) <= limit THEN all ELSE SubSeq(all, 1, limit)

\* The documents of ids, least description first.
RECURSIVE AscendingByDescription(_, _)
AscendingByDescription(c, ids) ==
    IF ids = {} THEN << >>
    ELSE LET low == CHOOSE i \in ids :
                      \A j \in ids :
                          \/ c[i].description # c[j].description
                               /\ StrLE(c[i].description, c[j].description)
                          \/ c[i].description = c[j].description
                               /\ DocNum(i) <= DocNum(j)
         IN  << Snapshot(c, low) >> \o AscendingByDescription(c, ids \ {low})

\* Line 205: where('description', '>=', term).where('description', '<=',
\* term + U+F8FF).stream()
QueryByDescription(c, term) ==
    LET ids == { i \in DOMAIN c :
                   /\ "description" \in DOMAIN c[i]
                   /\ StrLE(term, c[i].description)
                   /\ StrLE(c[i].description, term \o << "U+F8FF" >>) }
    IN  AscendingByDescription(c, ids)

\* Lines 118-123: the data with its identifier, or None.
GetItemResult(c, id) ==
    IF id \in DOMAIN c THEN SetItem(c[id], "id", id) ELSE None

\* Lines 222-244 on the list get_inventory_items returned: item.get with a
\* default raises on the first item; an empty list gives the empty counts.
StatsResult(items) ==
    IF Len(items) > 0
    THEN Reraise(SnapshotGetError)
    ELSE Returned([total_items |-> 0, last_update |-> None,
                   models_used |-> << >>, categories |-> << >>])

\* add_inventory_item(item_data), lines 62-84.
add_inventory_item(item_data, fail) ==
    LET needs == "timestamp" \notin DOMAIN item_data
        now == IsoFormat(clock + 1)
        data == WithTimestamp(item_data, now)
        id == AddTarget(data, next_doc + 1)
    IN  /\ next_doc < MaxDocs
        /\ needs => clock < MaxClock
        /\ clock' = IF needs THEN clock + 1 ELSE clock
        /\ IF fail
           THEN /\ UNCHANGED << inventory, next_doc >>
                /\ fb_call' = [op |-> "add_inventory_item", arg |-> item_data,
                               before |-> inventory, fail |-> fail,
                               out |-> Reraise(StoreError)]
           ELSE /\ inventory' = AddDocument(inventory, id, data)
                /\ next_doc' = next_doc + 1
                /\ fb_call' = [op |-> "add_inventory_item", arg |-> item_data,
                               before |-> inventory, fail |-> fail,
                               out |-> Returned([id |-> id])]

\* get_inventory_items(limit), lines 86-102.
get_inventory_items(limit, fail) ==
    /\ fb_call' = [op |-> "get_inventory_items", arg |-> limit,
                   before |-> inventory, fail |-> fail,
                   out |-> IF fail THEN Reraise(StoreError)
                           ELSE Returned(QueryByTimestamp(inventory, limit))]
    /\ UNCHANGED << inventory, next_doc, clock >>

\* get_inventory_item(item_id), lines 104-127.
get_inventory_item(item_id, fail) ==
    /\ fb_call' = [op |-> "get_inventory_item", arg |-> item_id,
                   before |-> inventory, fail |-> fail,
                   out |-> IF fail THEN Reraise(StoreError)
                           ELSE Returned(GetItemResult(inventory, item_id))]
    /\ UNCHANGED << inventory, next_doc, clock >>

\* update_inventory_item(item_id, update_data), lines 129-148; update()
\* of a document that does not exist raises NotFound.
update_inventory_item(item_id, update_data, fail) ==
    /\ IF fail \/ item_id \notin DOMAIN inventory
       THEN /\ UNCHANGED inventory
            /\ fb_call' = [op |-> "update_inventory_item", arg |-> item_id,
                           before |-> inventory, fail |-> fail,
                           out |-> Reraise(IF fail THEN StoreError ELSE NotFound)]
       ELSE /\ inventory' = [inventory EXCEPT
                                ![item_id] = Merge(inventory[item_id], update_data)]
            /\ fb_call' = [op |-> "update_inventory_item", arg |-> item_id,
                           before |-> inventory, fail |-> fail,
                           out |-> Returned(TRUE)]
    /\ UNCHANGED << next_doc, clock >>

\* delete_inventory_item(item_id), lines 150-167.
delete_inventory_item(item_id, fail) ==
    /\ IF fail
       THEN /\ UNCHANGED inventory
            /\ fb_call' = [op |-> "delete_inventory_item", arg |-> item_id,
                           before |-> inventory, fail |-> fail,
                           out |-> Reraise(StoreError)]
       ELSE /\ inventory' = DeleteDocument(inventory, item_id)
            /\ fb_call' = [op |-> "delete_inventory_item", arg |-> item_id,
                           before |-> inventory, fail |-> fail,
                           out |-> Returned(TRUE)]
    /\ UNCHANGED << next_doc, clock >>

\* search_inventory(search_term), lines 193-210.
search_inventory(search_term, fail) ==
    /\ fb_call' = [op |-> "search_inventory", arg |-> search_term,
                   before |-> inventory, fail |-> fail,
                   out |-> IF fail THEN Reraise(StoreError)
                           ELSE Returned(QueryByDescription(inventory, search_term))]
    /\ UNCHANGED << inventory, next_doc, clock >>

\* get_inventory_stats(), lines 212-248: the exception get_inventory_items
\* re-raised passes through the handler of lines 246-248.
get_inventory_stats(fail) ==
    /\ fb_call' = [op |-> "get_inventory_stats", arg |-> None,
                   before |-> inventory, fail |-> fail,
                   out |-> IF fail THEN Reraise(StoreError)
                           ELSE StatsResult(QueryByTimestamp(inventory, DefaultLimit))]
    /\ UNCHANGED << inventory, next_doc, clock >>

StoreNext ==
    \E fail \in BOOLEAN :
        \/ \E d \in ItemData : add_inventory_item(d, fail) /\ UNCHANGED outsideStore
        \/ \E n \in Limits : get_inventory_items(n, fail) /\ UNCHANGED outsideStore
        \/ \E i \in ItemIds : get_inventory_item(i, fail) /\ UNCHANGED outsideStore
        \/ \E i \in ItemIds, u \in UpdateData :
               update_inventory_item(i, u, fail) /\ UNCHANGED outsideStore
        \/ \E i \in ItemIds : delete_inventory_item(i, fail) /\ UNCHANGED outsideStore
        \/ \E w \in SearchTerms : search_inventory(w, fail) /\ UNCHANGED outsideStore
        \/ get_inventory_stats(fail) /\ UNCHANGED outsideStore

StoreSpec == Init /\ [][StoreNext]_vars

(***************************************************************************)
(* AttributeMatcher (spec.md, section 4.3).  A text is a tuple of          *)
(* characters; the record is a mapping that may lack any of its keys.      *)
(***************************************************************************)
\* The characters of the texts, and their lower-case forms.
Upper == { "T", "Z" }
LowerCh(ch) == IF ch = "T" THEN "t" ELSE IF ch = "Z" THEN "z" ELSE ch

\* str.lower()
Lower(str) == [k \in 1 .. Len(str) |-> LowerCh(str[k])]

\* The result when the candidate list is empty, and when no candidate
\* scores above zero.
InventoryEmpty == << "Inventario vacio" >>
NotFoundSentinel == << "Articulo no encontrado" >>

\* The attribute records given to the matcher: complete, with keys
\* missing, and empty.
AttributeRecords ==
    { [main_object |-> << "T", "a" >>, main_color |-> << "b" >>,
       secondary_colors |-> << >>, shape |-> << >>, material |-> << >>,
       features |-> << << "z" >> >>],
      [main_object |-> << "z", "a" >>],
      [main_object |-> << "t" >>, features |-> << << "a" >>, << "Z", "b" >> >>],
      << >> }

\* The candidate names: one token, several tokens, capitals, and a name
\* none of the records has.
CandidateNames ==
    { << "T", "a" >>, << "t", "a", " ", "z" >>, << "z" >>,
      << "a", " ", " ", "b" >>, << "q" >> }

RECURSIVE ListsUpTo(_)
ListsUpTo(n) ==
    IF n = 0 THEN { << >> }
    ELSE LET shorter == ListsUpTo(n - 1)
         IN  shorter \cup { Append(l, c) : l \in { x \in shorter : Len(x) = n - 1 },
                                           c \in CandidateNames }
CandidateLists == ListsUpTo(MaxCandidates)

\* A missing key reads as the empty text or the empty sequence.
Field(r, key) == IF key \in DOMAIN r THEN r[key] ELSE << >>

\* " ".join(parts)
RECURSIVE JoinSpace(_)
JoinSpace(parts) ==
    IF Len(parts) = 0 THEN << >>
    ELSE IF Len(parts) = 1 THEN parts[1]
    ELSE parts[1] \o << " " >> \o JoinSpace(Tail(parts))

\* The six fields in one lower-cased text.
Blob(r) ==
    Lower(JoinSpace(<< Field(r, "main_object"), Field(r, "main_color"),
                       JoinSpace(Field(r, "secondary_colors")),
                       Field(r, "shape"), Field(r, "material"),
                       JoinSpace(Field(r, "features")) >>))

\* str.split(): the maximal runs of characters that are not white space.
RECURSIVE Split(_, _)
Split(str, word) ==
    IF Len(str) = 0 THEN (IF Len(word) = 0 THEN << >> ELSE << word >>)
    ELSE IF str[1] = " "
         THEN (IF Len(word) = 0 THEN << >> ELSE << word >>) \o Split(Tail(str), << >>)
         ELSE Split(Tail(str), Append(word, str[1]))
Tokens(name) == Split(Lower(name), << >>)

\* token in blob
Occurs(token, blob) ==
    \E k \in 0 .. Len(blob) - Len(token) :
        SubSeq(blob, k + 1, k + Len(token)) = token

\* The tokens of the name that occur in the blob, counted with repetition.
Score(name, blob) ==
    Cardinality({ k \in 1 .. Len(Tokens(name)) : Occurs(Tokens(name)[k], blob) })

\* The matcher going on to score when there is nothing to score.
EmptyCheck_Missing(candidates) == FALSE

\* The candidate sequence is empty.
EmptyCheck(candidates) == Len(candidates) = 0

\* A candidate with an equal score taking the place of the best.
Replaces_OnTie(score, best_score) == score >= best_score /\ score > 0

\* A candidate replaces the best so far when its score is strictly higher.
Replaces(score, best_score) == score > best_score

\* The lower-cased form of the name returned in place of the name.
MatchOutput_Lowered(best, best_score) ==
    IF best_score > 0 THEN Lower(best) ELSE NotFoundSentinel

\* The best candidate if its score is above zero, the sentinel otherwise.
MatchOutput(best, best_score) ==
    IF best_score > 0 THEN best ELSE NotFoundSentinel

\* The matcher is called with a record and a list of candidate names.
InitMatcherCall ==
    /\ m_record \in AttributeRecords
    /\ m_candidates \in CandidateLists
    /\ m_pc = "start"
    /\ m_blob = << >>
    /\ m_i = 0
    /\ m_best = NoneText
    /\ m_best_score = 0
    /\ m_scored = << >>
    /\ m_result = NoneText

\* Precondition handling: an empty list ends the call at once.
MatcherStart ==
    /\ m_pc = "start"
    /\ IF EmptyCheck(m_candidates)
       THEN /\ m_result' = InventoryEmpty
            /\ m_pc' = "done"
            /\ UNCHANGED m_blob
       ELSE /\ m_blob' = Blob(m_record)
            /\ m_pc' = "loop"
            /\ UNCHANGED m_result
    /\ UNCHANGED << m_record, m_candidates, m_i, m_best, m_best_score, m_scored >>

\* One candidate is scored and compared with the best so far.
MatcherScore ==
    /\ m_pc = "loop"
    /\ m_i < Len(m_candidates)
    /\ LET name == m_candidates[m_i + 1]
           score == Score(name, m_blob)
       IN  /\ m_scored' = Append(m_scored, [name |-> name, score |-> score])
           /\ IF Replaces(score, m_best_score)
              THEN m_best' = name /\ m_best_score' = score
              ELSE UNCHANGED << m_best, m_best_score >>
    /\ m_i' = m_i + 1
    /\ UNCHANGED << m_record, m_candidates, m_pc, m_blob, m_result >>

\* Every candidate has been scored: the output.
MatcherReturn ==
    /\ m_pc = "loop"
    /\ m_i >= Len(m_candidates)
    /\ m_result' = MatchOutput(m_best, m_best_score)
    /\ m_pc' = "done"
    /\ UNCHANGED << m_record, m_candidates, m_blob, m_i, m_best, m_best_score,
                    m_scored >>

MatcherNext ==
    \/ MatcherStart /\ UNCHANGED outsideMatcher
    \/ MatcherScore /\ UNCHANGED outsideMatcher
    \/ MatcherReturn /\ UNCHANGED outsideMatcher

\* A call of the matcher with a record and a candidate list.
MatcherInit ==
    /\ InitGemini /\ InitKept /\ InitStore /\ InitMatcherCall /\ InitApp
    /\ InitCamera /\ InitBodega

MatcherSpec == MatcherInit /\ [][MatcherNext]_vars

(***************************************************************************)
(* streamlit_app.py.  Streamlit runs the whole script again after every    *)
(* interaction of a session; a button reads True only in the run its click *)
(* caused, and a widget can be used only if the last run rendered it.  A   *)
(* script run is one step.                                                 *)
(***************************************************************************)
\* Lines 106-115: the pages of the sidebar.
Pages ==
    { "Inicio", "Camara en Vivo", "Subir Imagen", "Analisis de Texto",
      "Dashboard", "Base de Datos", "Informacion del Proyecto", "Configuracion" }

\* The methods the classes define.
GeminiUtilsMethods ==
    { "get_available_model", "generate_content", "analyze_inventory_item",
      "get_model_info" }
FirebaseUtilsMethods ==
    { "get_timestamp", "add_inventory_item", "get_inventory_items",
      "get_inventory_item", "update_inventory_item", "delete_inventory_item",
      "upload_image", "search_inventory", "get_inventory_stats" }
MethodsOf(on) ==
    IF on = "gemini" THEN GeminiUtilsMethods
    ELSE IF on = "firebase" THEN FirebaseUtilsMethods
    ELSE { "__call__" }

\* The handles a script run holds after line 96.
Handles(y, f, g) == [yolo_model |-> y, firebase |-> f, gemini |-> g]

\* The check of line 98 looking at the detector only.
ServiceCheckFails_YoloOnly(h) == h.yolo_model = None

\* Line 98: if yolo_model is None or firebase is None or gemini is None
ServiceCheckFails(h) ==
    h.yolo_model = None \/ h.firebase = None \/ h.gemini = None

\* The cache looked up by nobody: the function body runs on every call.
UseCache_Never(cache) == FALSE

\* Lines 71 and 83, @st.cache_resource: a stored value is returned without
\* running the function.
UseCache(cache) == cache.hit

\* Line 43: if not firebase_admin._apps
NeedsApp(apps) == apps = 0

\* How FirebaseUtils() can end (firebase_utils.py lines 16-56): the
\* credentials are missing or malformed, initialize_app raises,
\* firestore.client() or storage.bucket() raises, or the object is built.
FirebaseCtorOutcomes(apps) ==
    { "credentials", "client", "ok" }
        \cup (IF NeedsApp(apps) THEN { "initialize_app" } ELSE {})

\* The apps registered after FirebaseUtils() ended with outcome o.
AppsAfter(apps, o) ==
    IF NeedsApp(apps) /\ o \in { "client", "ok" } THEN apps + 1 ELSE apps

\* How GeminiUtils() can end (gemini_utils.py lines 14-62).
GeminiCtorOutcomes == { "no_key", "ok" }

\* Lines 74-81: the model, or None when YOLO(...) raised.
YoloLoadOutcomes == { "YOLO", None }

\* The objects initialize_services builds.
FirebaseHandle(n) == "FirebaseUtils" \o ToString(n)
GeminiHandle(n) == "GeminiUtils" \o ToString(n)

\* initialize_services keeping the store handle when only GeminiUtils()
\* raised.
ServicesValue_KeepsFirebase(fo, go, fb, gm) ==
    << IF fo = "ok" THEN fb ELSE None, IF fo = "ok" /\ go = "ok" THEN gm ELSE None >>

\* Lines 86-92: both handles, or (None, None) when either constructor
\* raised.
ServicesValue(fo, go, fb, gm) ==
    IF fo = "ok" /\ go = "ok" THEN << fb, gm >> ELSE << None, None >>

\* An operation invoked on a handle, and how the invocation ended.
Call(on, handle, op, out) == [on |-> on, handle |-> handle, op |-> op, out |-> out]

\* handle.op(...): an AttributeError when the class has no such method.
Invoke(on, handle, op, out) ==
    Call(on, handle, op, IF op \in MethodsOf(on) THEN out ELSE "AttributeError")

\* What a part of the script did: the operations it invoked, the elements
\* it showed, the widgets it rendered.
Part(invoked, shown, offered) ==
    [invoked |-> invoked, shown |-> shown, offered |-> offered]
Nothing == Part(<< >>, {}, {})
Then(a, b) ==
    Part(a.invoked \o b.invoked, a.shown \cup b.shown, a.offered \cup b.offered)

\* st.button(label): True only in the run that the click on it caused.
ButtonValue(label, trigger, offered) == trigger = label

\* st.checkbox(label) of a checkbox the last run may not have rendered
\* (line 598): True only in the run that ticking it caused, because the
\* state of a widget is dropped by a run that does not render it.
CheckboxValue(label, trigger, offered) == trigger = label

\* Lines 294-309, 374-388, 434-447: the save button and its branch.
SaveBlock(h, w, label) ==
    Then(Part(<< >>, {}, { label }),
         IF ButtonValue(label, w.trigger, w.offered)
         THEN LET stamp == Invoke("firebase", h.firebase, "get_timestamp", "returned")
                  save == Invoke("firebase", h.firebase, "save_inventory_item", "returned")
              IN  IF save.out = "returned"
                  THEN Part(<< stamp, save >>, { "Guardado en inventario" }, {})
                  ELSE Part(<< stamp, save >>, { "Error al guardar" }, {})
         ELSE Nothing)

\* Lines 281-312, 365-391, 424-449: the analyse button and its branch, the
\* save button inside it.
AnalysisBlock(h, w, analyse, method, save, failure) ==
    Then(Part(<< >>, {}, { analyse }),
         IF ButtonValue(analyse, w.trigger, w.offered)
         THEN LET call == Invoke("gemini", h.gemini, method, "returned")
              IN  IF call.out = "returned"
                  THEN Then(Part(<< call >>, { "analysis" }, {}), SaveBlock(h, w, save))
                  ELSE Part(<< call >>, { failure }, {})
         ELSE Nothing)

\* How the detector call can end: detections, none, or an exception.
DetectorOutcomes == { "detections", "no detections", "raised" }

\* Lines 223-275 and 339-360: the detector call and what is shown of it.
DetectorBlock(h, det, failure) ==
    LET call == Call("yolo_model", h.yolo_model, "__call__",
                     IF det = "raised" THEN "raised" ELSE "returned")
    IN  Part(<< call >>,
             { IF det = "raised" THEN failure
               ELSE IF det = "detections" THEN "Detecciones YOLO"
               ELSE "No se detectaron objetos" }, {})

\* Lines 122-156 and 457-540: the pages that read the whole inventory.
ReadAllBlock(h, success, failure) ==
    LET call == Invoke("firebase", h.firebase, "get_all_inventory_items", "returned")
    IN  Part(<< call >>, { IF call.out = "returned" THEN success ELSE failure }, {})

\* Lines 194-312.
PageCamara(h, w, det) ==
    IF ~w.picture THEN Nothing
    ELSE Then(Then(Part(<< >>, {}, { "Analizar con YOLO" }),
                   IF ButtonValue("Analizar con YOLO", w.trigger, w.offered)
                        \/ w.auto_analyze
                   THEN DetectorBlock(h, det, "Error en analisis YOLO")
                   ELSE Nothing),
              AnalysisBlock(h, w, "Analizar con IA", "analyze_image",
                            "Guardar en Inventario", "Error en analisis Gemini"))

\* Lines 315-391.
PageSubir(h, w, det) ==
    IF ~w.uploaded_file THEN Nothing
    ELSE Then(Then(Part(<< >>, {}, { "Analizar con YOLO" }),
                   IF ButtonValue("Analizar con YOLO", w.trigger, w.offered)
                   THEN DetectorBlock(h, det, "Error en analisis YOLO")
                   ELSE Nothing),
              AnalysisBlock(h, w, "Analizar con Gemini AI", "analyze_image",
                            "Guardar en Inventario", "Error en analisis Gemini"))

\* Lines 394-451.
PageTexto(h, w) ==
    IF ButtonValue("Analizar Descripcion", w.trigger, w.offered) /\ ~w.text_input
    THEN Part(<< >>, { "Por favor, ingresa una descripcion" }, { "Analizar Descripcion" })
    ELSE AnalysisBlock(h, w, "Analizar Descripcion", "generate_description",
                       "Guardar Analisis", "Error en analisis")

\* Lines 543-669.  The buttons of the listed items are rendered only once
\* the inventory has been read.
PageBaseDeDatos(h, w) ==
    LET buttons == Part(<< >>, {},
                        { "Actualizar Lista", "Exportar CSV", "Limpiar Base de Datos" })
        export ==
            IF ButtonValue("Exportar CSV", w.trigger, w.offered)
            THEN ReadAllBlock(h, "Descargar CSV", "Error al exportar")
            ELSE Nothing
        clear ==
            IF ButtonValue("Limpiar Base de Datos", w.trigger, w.offered)
            THEN Then(Part(<< >>, {}, { "Confirmar eliminacion" }),
                      IF CheckboxValue("Confirmar eliminacion", w.trigger, w.offered)
                      THEN ReadAllBlock(h, "Base de datos limpiada", "Error al limpiar")
                      ELSE Nothing)
            ELSE Nothing
        list == ReadAllBlock(h, "Elementos Encontrados", "Error al cargar inventario")
    IN  Then(Then(Then(buttons, export), clear), list)

\* Lines 773-859.
PageConfiguracion(h, w) ==
    Part(<< >>, { "Estado de los Servicios" }, { "Actualizar Logs" })

\* The pages that call the detector in the run.
UsesDetector(w) ==
    \/ w.page = "Camara en Vivo" /\ w.picture
         /\ (w.trigger = "Analizar con YOLO" \/ w.auto_analyze)
    \/ w.page = "Subir Imagen" /\ w.uploaded_file /\ w.trigger = "Analizar con YOLO"

\* Lines 103-859: the sidebar and the page selected.
PageLogic(h, w, det) ==
    IF w.page = "Inicio"
        THEN ReadAllBlock(h, "Estadisticas", "Error al cargar estadisticas")
    ELSE IF w.page = "Camara en Vivo" THEN PageCamara(h, w, det)
    ELSE IF w.page = "Subir Imagen" THEN PageSubir(h, w, det)
    ELSE IF w.page = "Analisis de Texto" THEN PageTexto(h, w)
    ELSE IF w.page = "Dashboard"
        THEN ReadAllBlock(h, "Dashboard", "Error al cargar dashboard")
    ELSE IF w.page = "Base de Datos" THEN PageBaseDeDatos(h, w)
    ELSE IF w.page = "Configuracion" THEN PageConfiguracion(h, w)
    ELSE Nothing

\* Lines 564-565 and 845-846: st.rerun() starts the script again with no
\* button pressed.
RerunsAtOnce(trigger) == trigger \in { "Actualizar Lista", "Actualizar Logs" }

\* One run of the script for session t, whose widgets are w (lines 95-859).
ScriptRun(t, w) ==
    \E y \in (IF UseCache(yolo_cache) THEN { yolo_cache.value } ELSE YoloLoadOutcomes),
       fo \in (IF UseCache(services_cache) THEN { "ok" }
               ELSE FirebaseCtorOutcomes(firebase_apps)),
       go \in (IF UseCache(services_cache) THEN { "ok" } ELSE GeminiCtorOutcomes),
       det \in (IF UsesDetector(w) THEN DetectorOutcomes ELSE { "raised" }) :
        LET loads == ~UseCache(yolo_cache)
            builds == ~UseCache(services_cache)
            services ==
                IF builds
                THEN ServicesValue(fo, go, FirebaseHandle(made.firebase + made.firebase_other + 1),
                                   GeminiHandle(made.gemini + made.gemini_other + 1))
                ELSE services_cache.value
            h == Handles(y, services[1], services[2])
            now == IF RerunsAtOnce(w.trigger) THEN [w EXCEPT !.trigger = None] ELSE w
            did == IF ServiceCheckFails(h)
                   THEN Part(<< >>, { "Error al inicializar los servicios" }, {})
                   ELSE PageLogic(h, now, det)
        IN  /\ yolo_cache' = IF loads THEN Hit(y) ELSE yolo_cache
            /\ services_cache' = IF builds THEN Hit(services) ELSE services_cache
            /\ firebase_apps' = IF builds THEN AppsAfter(firebase_apps, fo)
                                ELSE firebase_apps
            /\ made' =
                 [made EXCEPT
                    !.yolo = @ + (IF loads THEN 1 ELSE 0),
                    !.services = @ + (IF builds THEN 1 ELSE 0),
                    !.firebase = @ + (IF builds /\ fo = "ok" THEN 1 ELSE 0),
                    !.gemini = @ + (IF builds /\ fo = "ok" /\ go = "ok" THEN 1 ELSE 0),
                    !.apps = @ + (IF builds THEN AppsAfter(firebase_apps, fo) - firebase_apps
                                  ELSE 0)]
            /\ session' =
                 [session EXCEPT ![t] =
                    [now EXCEPT !.open = TRUE,
                                !.trigger = w.trigger,
                                !.yolo_model = h.yolo_model,
                                !.firebase = h.firebase,
                                !.gemini = h.gemini,
                                !.halted = ServiceCheckFails(h),
                                !.shown = did.shown,
                                !.offered = did.offered,
                                !.invoked = did.invoked]]

\* A browser opens the application, or reloads it: the widgets are new.
OpenSession(t) == ScriptRun(t, Closed)

\* The user selects a page in the sidebar: the widgets of the page are new.
SelectPage(t, p) ==
    /\ session[t].open /\ ~session[t].halted
    /\ p # session[t].page
    /\ ScriptRun(t, [Closed EXCEPT !.page = p])

\* The user takes a picture, uploads a file or types a description.
ProvideInput(t) ==
    /\ session[t].open /\ ~session[t].halted
    /\ \/ /\ session[t].page = "Camara en Vivo"
          /\ ScriptRun(t, [session[t] EXCEPT !.picture = ~@, !.trigger = None])
       \/ /\ session[t].page = "Subir Imagen"
          /\ ScriptRun(t, [session[t] EXCEPT !.uploaded_file = ~@, !.trigger = None])
       \/ /\ session[t].page = "Analisis de Texto"
          /\ ScriptRun(t, [session[t] EXCEPT !.text_input = ~@, !.trigger = None])

\* The user ticks or unticks 'Analisis Automatico' (line 204).
ToggleAutoAnalyze(t) ==
    /\ session[t].open /\ ~session[t].halted
    /\ session[t].page = "Camara en Vivo"
    /\ ScriptRun(t, [session[t] EXCEPT !.auto_analyze = ~@, !.trigger = None])

\* The user clicks a button, or ticks a checkbox, that the last run
\* rendered.
Click(t, label) ==
    /\ session[t].open /\ ~session[t].halted
    /\ label \in session[t].offered
    /\ ScriptRun(t, [session[t] EXCEPT !.trigger = label])

\* get_firebase_connection (firebase_utils.py lines 251-262): one more
\* FirebaseUtils is built, by a caller outside the script.
get_firebase_connection ==
    /\ made.firebase_other + made.gemini_other < MaxConnections
    /\ \E fo \in FirebaseCtorOutcomes(firebase_apps) :
          /\ firebase_apps' = AppsAfter(firebase_apps, fo)
          /\ made' = [made EXCEPT
                        !.firebase_other = @ + (IF fo = "ok" THEN 1 ELSE 0),
                        !.apps = @ + AppsAfter(firebase_apps, fo) - firebase_apps]
    /\ UNCHANGED << yolo_cache, services_cache, session >>

\* get_gemini_response (gemini_utils.py lines 214-234): every call builds a
\* GeminiUtils of its own, or fails to; nothing in the script calls it.
ConstructGeminiForResponse ==
    /\ made.firebase_other + made.gemini_other < MaxConnections
    /\ \E go \in GeminiCtorOutcomes :
          made' = [made EXCEPT !.gemini_other = @ + (IF go = "ok" THEN 1 ELSE 0)]
    /\ UNCHANGED << yolo_cache, services_cache, firebase_apps, session >>

AllLabels ==
    { "Analizar con YOLO", "Analizar con IA", "Guardar en Inventario",
      "Analizar con Gemini AI", "Analizar Descripcion", "Guardar Analisis",
      "Actualizar Lista", "Exportar CSV", "Limpiar Base de Datos",
      "Confirmar eliminacion", "Actualizar Logs" }

AppNext ==
    \/ \E t \in Sessions : OpenSession(t) /\ UNCHANGED outsideApp
    \/ \E t \in Sessions, p \in Pages : SelectPage(t, p) /\ UNCHANGED outsideApp
    \/ \E t \in Sessions : ProvideInput(t) /\ UNCHANGED outsideApp
    \/ \E t \in Sessions : ToggleAutoAnalyze(t) /\ UNCHANGED outsideApp
    \/ \E t \in Sessions, b \in AllLabels : Click(t, b) /\ UNCHANGED outsideApp
    \/ get_firebase_connection /\ UNCHANGED outsideApp
    \/ ConstructGeminiForResponse /\ UNCHANGED outsideApp

AppSpec == Init /\ [][AppNext]_vars

(***************************************************************************)
(* streamlit_app.py, page 'Camara en Vivo': the YOLO analysis of a picture *)
(* (lines 223-278).  A confidence and the threshold are hundredths.        *)
(***************************************************************************)
\* yolo_model.names: the label of a class index.
Names == [cls \in { 0, 39 } |-> IF cls = 0 THEN "person" ELSE "bottle"]

\* The boxes the detector can return: class index and confidence.
Boxes == [cls : DOMAIN Names, conf : { 30, 50, 70 }]
RECURSIVE BoxListsUpTo(_)
BoxListsUpTo(n) ==
    IF n = 0 THEN { << >> }
    ELSE LET shorter == BoxListsUpTo(n - 1)
         IN  shorter \cup { Append(l, b) : l \in { x \in shorter : Len(x) = n - 1 },
                                             b \in Boxes }

\* Line 205: st.slider(..., 0.1, 1.0, 0.5, 0.1).
Thresholds == { 10 * k : k \in 1 .. 10 }

\* The threshold test letting through only what is above the threshold.
Passes_Strictly(conf, confidence_threshold) == conf > confidence_threshold

\* Line 236: if conf >= confidence_threshold
Passes(conf, confidence_threshold) == conf >= confidence_threshold

\* A picture was taken and line 223 is true: the analysis starts with the
\* threshold selected; the detector will return boxes or raise.
InitCameraRun ==
    \E boxes \in BoxListsUpTo(MaxBoxes), th \in Thresholds, raises \in BOOLEAN :
        /\ raises => boxes = << >>
        /\ cam = [pc |-> "call", boxes |-> boxes, raises |-> raises,
                  confidence_threshold |-> th, i |-> 0, detections |-> << >>,
                  annotated_image |-> << >>, shown |-> << >>, listed |-> << >>]

\* Lines 226-230: results = yolo_model(img_cv); detections = []; the copy
\* of the image.  An exception goes to the handler of lines 277-278.
CameraCall ==
    /\ cam.pc = "call"
    /\ cam' = IF cam.raises
              THEN [cam EXCEPT !.pc = "done", !.shown = << "Error en analisis YOLO" >>]
              ELSE [cam EXCEPT !.pc = "boxes"]

\* Lines 232-255: one box of the loop over the boxes of the picture's
\* result.
CameraBox ==
    /\ cam.pc = "boxes"
    /\ cam.i < Len(cam.boxes)
    /\ LET box == cam.boxes[cam.i + 1]
           conf == box.conf
           label == Names[box.cls]
       IN  cam' = IF Passes(conf, cam.confidence_threshold)
                  THEN [cam EXCEPT
                          !.i = @ + 1,
                          !.annotated_image = Append(@, [label |-> label, conf |-> conf]),
                          !.detections = Append(@, [label |-> label, confidence |-> conf])]
                  ELSE [cam EXCEPT !.i = @ + 1]

\* Lines 258-275: the annotated image and one line for each detection, or
\* the warning.
CameraShow ==
    /\ cam.pc = "boxes"
    /\ cam.i = Len(cam.boxes)
    /\ cam' = [cam EXCEPT
                 !.pc = "done",
                 !.shown =
                    IF Len(cam.detections) > 0
                    THEN << "Detecciones YOLO", "Informacion de Detecciones" >>
                    ELSE << "No se detectaron objetos" >>,
                 !.listed =
                    IF Len(cam.detections) > 0
                    THEN [k \in 1 .. Len(cam.detections) |-> cam.detections[k]]
                    ELSE << >>]

CameraInit ==
    /\ InitGemini /\ InitKept /\ InitStore /\ InitMatcher /\ InitApp
    /\ InitCameraRun /\ InitBodega

CameraNext ==
    \/ CameraCall /\ UNCHANGED outsideCamera
    \/ CameraBox /\ UNCHANGED outsideCamera
    \/ CameraShow /\ UNCHANGED outsideCamera

CameraSpec == CameraInit /\ [][CameraNext]_vars

(***************************************************************************)
(* app.py: one run of the script.  A text is the tuple of its characters.  *)
(***************************************************************************)
\* Lines 17-23: the detections of the simulated detector.
detectar_productos ==
    << [etiqueta |-> << "C", "a", "j", "a", " ", "d", "e", " ", "T", "o", "r", "n", "i", "l", "l", "o", "s" >>,
        confianza |-> 95, caja |-> << 50, 70, 250, 220 >>],
       [etiqueta |-> << "B", "o", "t", "e", "l", "l", "a", " ", "d", "e", " ", "A", "g", "u", "a" >>,
        confianza |-> 89, caja |-> << 300, 150, 400, 350 >>],
       [etiqueta |-> << "L", "a", "t", "a", " ", "d", "e", " ", "P", "i", "n", "t", "u", "r", "a" >>,
        confianza |-> 92, caja |-> << 450, 100, 600, 280 >>],
       [etiqueta |-> << "C", "a", "j", "a", " ", "d", "e", " ", "T", "o", "r", "n", "i", "l", "l", "o", "s" >>,
        confianza |-> 91, caja |-> << 60, 250, 260, 400 >>] >>

\* What the user can have typed into 'Buscar Producto' (line 76).
SearchTexts ==
    { << >>,
      << "c", "a", "j", "a" >>,
      << "C", "A", "J", "A" >>,
      << "C", "a", "j", "a" >>,
      << "a" >>,
      << "A" >>,
      << " " >>,
      << "d", "e" >>,
      << "t", "o", "r", "n", "i", "l", "l", "o", "s" >>,
      << "T", "o", "r", "n", "i", "l", "l", "o", "s" >>,
      << "a", "g", "u", "a" >>,
      << "L", "a", "t", "a" >>,
      << "x" >>,
      << "C", "a", "j", "a", " ", "d", "e", " ", "T", "o", "r", "n", "i", "l", "l", "o", "s" >>,
      << "p", "i", "n", "t", "u", "r", "a", " " >>,
      << "B", "O", "T", "E", "L", "L", "A" >> }

\* str.lower() on the characters of these texts.
lower(str) ==
    [k \in 1 .. Len(str) |->
        CASE str[k] = "A" -> "a" [] str[k] = "B" -> "b" [] str[k] = "C" -> "c"
          [] str[k] = "E" -> "e" [] str[k] = "J" -> "j" [] str[k] = "L" -> "l"
          [] str[k] = "O" -> "o" [] str[k] = "P" -> "p" [] str[k] = "T" -> "t"
          [] OTHER -> str[k]]

\* a in b, for two strings.
Contains(b, a) ==
    \E k \in 0 .. Len(b) - Len(a) : SubSeq(b, k + 1, k + Len(a)) = a

\* The highlight decided on the spelling as typed.
Resaltado_CaseSensitive(producto_buscado, etiqueta) ==
    Contains(etiqueta, producto_buscado) /\ producto_buscado # << >>

\* Line 40: producto_buscado.lower() in etiqueta.lower() and
\* producto_buscado != ""
Resaltado(producto_buscado, etiqueta) ==
    Contains(lower(etiqueta), lower(producto_buscado)) /\ producto_buscado # << >>

\* Line 104: the detections whose label contains the text searched for.
productos_encontrados(detecciones, producto_a_buscar) ==
    SelectSeq(detecciones,
              LAMBDA p : Contains(lower(p.etiqueta), lower(producto_a_buscar)))

\* Lines 115-118: how many detections carry each label.
Resumen(detecciones) ==
    [e \in { detecciones[k].etiqueta : k \in 1 .. Len(detecciones) } |->
        Cardinality({ k \in 1 .. Len(detecciones) : detecciones[k].etiqueta = e })]

\* The script starts, with or without an uploaded image, and with the text
\* of the search box.
InitBodegaRun ==
    \E up \in BOOLEAN, text \in SearchTexts :
        bodega = [pc |-> "start", imagen_subida |-> up, producto_a_buscar |-> text,
                  detecciones |-> << >>, i |-> 0, colores |-> << >>,
                  buscando |-> FALSE, cantidad |-> 0, ubicaciones |-> << >>,
                  resumen |-> << >>, descripcion |-> "none"]

\* Lines 86-92: detecciones = detectar_productos(imagen_np).
BodegaDetect ==
    /\ bodega.pc = "start" /\ bodega.imagen_subida
    /\ bodega' = [bodega EXCEPT !.pc = "dibujar_cajas", !.detecciones = detectar_productos]

\* Lines 35-50 of dibujar_cajas: one detection of the loop.
BodegaDraw ==
    /\ bodega.pc = "dibujar_cajas"
    /\ bodega.i < Len(bodega.detecciones)
    /\ LET producto == bodega.detecciones[bodega.i + 1]
           color == IF Resaltado(bodega.producto_a_buscar, producto.etiqueta)
                    THEN "color_resaltado" ELSE "color_normal"
       IN  bodega' = [bodega EXCEPT !.i = @ + 1, !.colores = Append(@, color)]

\* Lines 98-124: the image is shown and the description written.
BodegaDescribe ==
    /\ bodega.pc = "dibujar_cajas"
    /\ bodega.i = Len(bodega.detecciones)
    /\ LET found == productos_encontrados(bodega.detecciones, bodega.producto_a_buscar)
       IN  bodega' =
             IF bodega.producto_a_buscar # << >>
             THEN [bodega EXCEPT
                     !.pc = "done", !.buscando = TRUE,
                     !.cantidad = Len(found),
                     !.ubicaciones = [k \in 1 .. Len(found) |->
                                         << found[k].caja[1], found[k].caja[2] >>],
                     !.descripcion = "busqueda"]
             ELSE [bodega EXCEPT
                     !.pc = "done",
                     !.resumen = Resumen(bodega.detecciones),
                     !.descripcion = "resumen"]

\* Lines 126-129: no image has been uploaded.
BodegaWaits ==
    /\ bodega.pc = "start" /\ ~bodega.imagen_subida
    /\ bodega' = [bodega EXCEPT !.pc = "done", !.descripcion = "Sube una imagen"]

BodegaInit ==
    /\ InitGemini /\ InitKept /\ InitStore /\ InitMatcher /\ InitApp
    /\ InitCamera /\ InitBodegaRun

BodegaNext ==
    \/ BodegaDetect /\ UNCHANGED outsideBodega
    \/ BodegaDraw /\ UNCHANGED outsideBodega
    \/ BodegaDescribe /\ UNCHANGED outsideBodega
    \/ BodegaWaits /\ UNCHANGED outsideBodega

BodegaSpec == BodegaInit /\ [][BodegaNext]_vars

(***************************************************************************)
(* Vocabulary of the properties.                                           *)
(***************************************************************************)
Done(t) == pc[t] = "done"

\* An attempt that reached the network.
IsCall(a) == a.out # "not_built"
IsGen(a) == a.kind = "gen"
IsProbe(a) == a.kind = "probe"

ExternalCalls(t) == SelectSeq(attempts[t], IsCall)
GenAttempts(t) == SelectSeq(attempts[t], IsGen)

\* 1-based position in self.models; 0 for None.
Pos(x) == IF InModels(x) THEN Index(x) + 1 ELSE 0

\* The response carries a non-empty content body.
UsableBody(r) ==
    /\ ~Truthy(r.block_reason)
    /\ r.finish_reason # "SAFETY"
    /\ ~r.text_raises
    /\ TruthyText(r.text)

\* C1: a generation call that returns a non-empty content body ends the
\* invocation: it is the last model tried, the next step returns, and the
\* caller receives the successful result carrying that body (stripped).
C1_SuccessEndsInvocation ==
    \A t \in Threads :
        \A k \in 1 .. Len(attempts[t]) :
            LET a == attempts[t][k]
            IN  (IsGen(a) /\ a.out = "returned" /\ UsableBody(a.resp)) =>
                    /\ k = Len(attempts[t])
                    /\ pc[t] \in {"L126", "done"}
                    /\ Done(t) =>
                         /\ ~IsRaised(result[t])
                         /\ result[t].success = TRUE
                         /\ result[t].response = Strip(a.resp.text)
                         /\ result[t].model_used = a.model

\* The first model's call succeeds and nothing else was tried, although
\* later models exist.
C1_Witness ==
    \E t \in Threads :
        /\ Done(t)
        /\ Len(attempts[t]) = 1
        /\ IsGen(attempts[t][1])
        /\ attempts[t][1].model = models[1]
        /\ attempts[t][1].out = "returned"
        /\ UsableBody(attempts[t][1].resp)
        /\ Len(models) > 1

\* The response has no usable content body: an explicit block reason, a
\* SAFETY finish reason, or an empty text.
NoUsableBody(r) ==
    \/ Truthy(r.block_reason)
    \/ r.finish_reason = "SAFETY"
    \/ ~r.text_raises /\ ~TruthyText(r.text)

\* C2 as stated: an invocation does not end on a model whose response has
\* no usable body while untried identifiers remain.
C2_Original ==
    \A t \in Threads :
        (/\ Done(t)
         /\ Len(attempts[t]) > 0
         /\ IsGen(attempts[t][Len(attempts[t])])
         /\ attempts[t][Len(attempts[t])].out = "returned"
         /\ NoUsableBody(attempts[t][Len(attempts[t])].resp))
        => Pos(attempts[t][Len(attempts[t])].model) = Len(models)

\* C2, amended: a generation call whose response has no usable body ends
\* the invocation on that model, whatever identifiers remain: it is the last
\* model tried, the next step returns, and the caller receives an error
\* result that names the condition (the block reason, the safety filter, or
\* the missing text) and is not the error of an exhausted list.
C2_UnusableEndsInvocation ==
    \A t \in Threads :
        \A k \in 1 .. Len(attempts[t]) :
            LET a == attempts[t][k]
            IN  (IsGen(a) /\ a.out = "returned" /\ NoUsableBody(a.resp)) =>
                    /\ k = Len(attempts[t])
                    /\ pc[t] \in {"L126", "done"}
                    /\ Done(t) =>
                         /\ ~IsRaised(result[t])
                         /\ result[t].success = FALSE
                         /\ result[t].response = NoneText
                         /\ result[t].error =
                              IF Truthy(a.resp.block_reason)
                              THEN << "Contenido bloqueado: ", a.resp.block_reason >>
                              ELSE IF a.resp.finish_reason = "SAFETY"
                              THEN << "Respuesta bloqueada por filtros de seguridad" >>
                              ELSE << "No se genero respuesta valida" >>

\* An invocation ended on a blocked response of the first model although
\* later models were never tried.
C2_Witness ==
    \E t \in Threads :
        /\ Done(t)
        /\ Len(attempts[t]) > 0
        /\ LET a == attempts[t][Len(attempts[t])]
           IN  /\ IsGen(a)
               /\ a.out = "returned"
               /\ Truthy(a.resp.block_reason)
               /\ Pos(a.model) < Len(models)

\* C3 as stated: no identifier receives two external calls in one invocation.
C3_Original ==
    \A t \in Threads :
        LET c == ExternalCalls(t)
        IN  \A j, k \in 1 .. Len(c) : j # k => c[j].model # c[k].model

\* C3, amended: an identifier receives at most one generation call and at
\* most one probe call in one invocation.  Two calls go to the same
\* identifier only on an instance whose current_model was None: the probe
\* that the model answered, directly followed by the generation call to
\* that model.  With current_model set at the start there is no probe, and
\* so no identifier is called twice.
C3_OneCallPerLoop ==
    \A t \in Threads :
        LET c == ExternalCalls(t)
        IN  /\ \A j, k \in 1 .. Len(c) :
                 (j < k /\ c[j].model = c[k].model) =>
                     /\ IsProbe(c[j])
                     /\ c[j].out = "returned"
                     /\ ProbeAccepts(c[j].resp)
                     /\ IsGen(c[k])
                     /\ k = j + 1
            /\ start_model[t] # None => \A j \in 1 .. Len(c) : IsGen(c[j])

\* A first invocation on a fresh instance called one identifier twice: the
\* probe and then the generation call.
C3_Witness ==
    \E t \in Threads :
        /\ Done(t)
        /\ start_model[t] = None
        /\ LET c == ExternalCalls(t)
           IN  \E j \in 1 .. Len(c) - 1 :
                   /\ IsProbe(c[j])
                   /\ IsGen(c[j + 1])
                   /\ c[j].model = c[j + 1].model

\* C4 as stated: an invocation makes at most len(self.models) external calls.
C4_Original ==
    \A t \in Threads : Len(ExternalCalls(t)) <= Len(models)

\* C4, amended: every invocation terminates (each external call having an
\* outcome), and it makes at most len(self.models) + 1 external calls,
\* probes included, over all its recursive re-entries.
C4_TerminatesWithinBound ==
    /\ [](\A t \in Threads :
            /\ Len(ExternalCalls(t)) <= Len(models) + 1
            /\ depth[t] <= Len(models) - 1)
    /\ (\E t \in Threads : pc[t] = "L98") ~> (\E t \in Threads : Done(t))

\* An invocation made len(self.models) + 1 external calls.
C4_Witness ==
    \E t \in Threads :
        /\ Done(t)
        /\ Len(ExternalCalls(t)) = Len(models) + 1

\* Every model the invocation tried was built and called, and every call raised.
AllCallsRaised(t) ==
    /\ Len(attempts[t]) > 0
    /\ \A k \in 1 .. Len(attempts[t]) : attempts[t][k].out = "raised"

IsErrorResult(r) ==
    /\ ~IsRaised(r)
    /\ r.success = FALSE
    /\ r.response = NoneText
    /\ r.error # NoneText

Embeds(text, part) ==
    \E i \in 0 .. Len(text) - Len(part) :
        SubSeq(text, i + 1, i + Len(part)) = part

\* The attempt gave no response to work with: the model was not built, the
\* call raised, the text could not be read, or (for a probe) it was empty.
AttemptFailed(a) ==
    \/ a.out \in {"not_built", "raised"}
    \/ /\ a.out = "returned"
       /\ IF IsProbe(a) THEN ~ProbeAccepts(a.resp)
          ELSE ~Truthy(a.resp.block_reason)
               /\ a.resp.finish_reason # "SAFETY"
               /\ a.resp.text_raises

\* Every identifier is exhausted: the last model of the list was tried last
\* and failed.
Exhausted(t) ==
    /\ Len(attempts[t]) > 0
    /\ Pos(attempts[t][Len(attempts[t])].model) = Len(models)
    /\ AttemptFailed(attempts[t][Len(attempts[t])])

\* C6 as stated: when the list is exhausted the error text of the result
\* embeds the last recorded error.
C6_Original ==
    \A t \in Threads :
        (Done(t) /\ Exhausted(t) /\ last_exc[t] # NoExc) =>
            /\ IsErrorResult(result[t])
            /\ Embeds(result[t].error, Str(last_exc[t]))

\* C6, amended: when the list is exhausted by the generation calls, the
\* result is an error whose text is the fixed prefix followed by the message
\* of the last exception; when current_model is None and every probe of
\* get_available_model fails, the result is the fixed error
\* "No hay modelos de IA disponibles", which embeds no recorded error.
C6_ExhaustedError ==
    \A t \in Threads :
        (Done(t) /\ Exhausted(t)) =>
            /\ IsErrorResult(result[t])
            /\ IF IsGen(attempts[t][Len(attempts[t])])
               THEN /\ result[t].error =
                         << "No se pudo conectar con ningun modelo de IA disponible. Ultimo error: " >>
                         \o Str(last_exc[t])
                    /\ Embeds(result[t].error, Str(last_exc[t]))
                    /\ error_msg[t] = Str(last_exc[t])
               ELSE /\ result[t].error = << "No hay modelos de IA disponibles" >>
                    /\ current_model[self[t]] = None

\* Every probe failed, the last one by an exception, and the result is the
\* fixed error.
C6_Witness ==
    \E t \in Threads :
        /\ Done(t)
        /\ Exhausted(t)
        /\ IsProbe(attempts[t][Len(attempts[t])])
        /\ attempts[t][Len(attempts[t])].out = "raised"
        /\ last_exc[t] # NoExc

\* C7: generate_content and get_gemini_response never raise.  Whatever the
\* external operations do, generate_content returns, and the caller receives
\* a mapping with the keys success, error and response, a failure carrying
\* its message in error.
C7_NeverRaises ==
    \A t \in Threads :
        Done(t) =>
            /\ gc_result[t] # NoResult => ~IsRaised(gc_result[t])
            /\ ~IsRaised(result[t])
            /\ {"success", "error", "response"} \subseteq DOMAIN result[t]
            /\ result[t].success = FALSE =>
                 /\ result[t].error # NoneText
                 /\ result[t].response = NoneText
            /\ (entry[t] = "get_gemini_response" /\ Len(attempts[t]) = 0) =>
                 result[t].error =
                     << "Error inicializando Gemini: " >> \o Str(last_exc[t])

\* Reading the response of the last identifier raised, and the caller has
\* an error result.
C7_Witness ==
    \E t \in Threads :
        /\ Done(t)
        /\ Len(attempts[t]) > 0
        /\ LET a == attempts[t][Len(attempts[t])]
           IN  /\ IsGen(a)
               /\ Pos(a.model) = Len(models)
               /\ a.out = "returned"
               /\ a.resp.text_raises
               /\ ~Truthy(a.resp.block_reason)
               /\ a.resp.finish_reason # "SAFETY"
        /\ last_exc[t] = TextError
        /\ IsErrorResult(result[t])

\* Position of the model that answered the probe in this invocation; 0 when
\* none did.
AcceptedProbePos(t) ==
    LET S == { k \in 1 .. Len(attempts[t]) :
                 /\ IsProbe(attempts[t][k])
                 /\ attempts[t][k].out = "returned"
                 /\ ProbeAccepts(attempts[t][k].resp) }
    IN  IF S = {} THEN 0 ELSE Pos(attempts[t][CHOOSE k \in S : TRUE].model)

ExpectedContent(t) ==
    LET p == IF entry[t] = "analyze_inventory_item" THEN AnalyzePrompt(args[t].text)
             ELSE args[t].text
    IN  IF args[t].image = None THEN << p >>
        ELSE << p, [mime_type |-> "image/jpeg", data |-> args[t].image] >>

\* C9: within one invocation the generation loop tries the identifiers in
\* list order.  Each model tried after another is the one at the next
\* position (none skipped, none revisited); every generation call carries
\* the same prompt and image; and after a failure at a position before the
\* last the invocation does not end: the exception is on its way to the
\* handler, or current_model is the next identifier and is tried next.
C9_ListOrder ==
    \A t \in Threads :
        LET g == GenAttempts(t)
        IN  /\ \A k \in 1 .. Len(g) - 1 :
                 /\ AttemptFailed(g[k])
                 /\ Pos(g[k + 1].model) = Pos(g[k].model) + 1
            /\ \A k \in 1 .. Len(g) :
                 IsCall(g[k]) => g[k].content = ExpectedContent(t)
            /\ (/\ Len(g) > 0
                /\ AttemptFailed(g[Len(g)])
                /\ Pos(g[Len(g)].model) < Len(models)) =>
                   \/ pc[t] \in {"L126", "except"}
                   \/ /\ pc[t] \in {"L98", "L108", "L123"}
                      /\ Pos(current_model[self[t]]) = Pos(g[Len(g)].model) + 1
                      /\ pc[t] = "L123" => model[t] = current_model[self[t]]

\* The call to the first identifier raised and the next generation call
\* went to the second identifier, with the same prompt and image.
C9_Witness ==
    \E t \in Threads :
        LET g == GenAttempts(t)
        IN  /\ Len(g) >= 2
            /\ g[1].out = "raised"
            /\ g[1].model = models[1]
            /\ IsCall(g[2])
            /\ g[2].model = models[2]
            /\ g[2].content = g[1].content
            /\ args[t].image # None

\* C10: analyze_inventory_item returns what its generate_content invocation
\* returns: the caller receives that result unchanged, a failure as an
\* error result and never as an exception, and every generation call made
\* for it carries the prompt built from the description and the image given.
C10_AnalyzeDelegates ==
    \A t \in Threads :
        (Done(t) /\ entry[t] = "analyze_inventory_item") =>
            /\ result[t] = gc_result[t]
            /\ ~IsRaised(result[t])
            /\ {"success", "error", "response"} \subseteq DOMAIN result[t]
            /\ result[t].success = FALSE => result[t].error # NoneText
            /\ prompt[t] = AnalyzePrompt(args[t].text)
            /\ image_data[t] = args[t].image
            /\ \A k \in 1 .. Len(attempts[t]) :
                 (IsGen(attempts[t][k]) /\ IsCall(attempts[t][k])) =>
                     attempts[t][k].content = ExpectedContent(t)

\* analyze_inventory_item was given an image, the fallback caller failed on
\* the last identifier, and the caller holds the error result.
C10_Witness ==
    \E t \in Threads :
        /\ Done(t)
        /\ entry[t] = "analyze_inventory_item"
        /\ args[t].image # None
        /\ Exhausted(t)
        /\ IsGen(attempts[t][Len(attempts[t])])
        /\ IsErrorResult(result[t])

(***************************************************************************)
(* FirebaseUtils: the properties of the store operations.                  *)
(***************************************************************************)
\* The last operation was op.
Called(op) == fb_call.op = op

\* Some operation has been called.
AnyCalled == fb_call.op # None

\* C11 as stated: no FirebaseUtils operation ends by an exception.
C11_Original == AnyCalled => ~IsRaised(fb_call.out)

\* C11, amended: a failure of the store call of a FirebaseUtils operation is
\* caught in the operation, logged and raised again: the operation ends by
\* that same exception, and it returns a value only when its store call did
\* not fail.
C11_FailureIsReraised ==
    AnyCalled =>
        /\ fb_call.fail => fb_call.out = Raised(StoreError)
        /\ ~IsRaised(fb_call.out) => ~fb_call.fail
        /\ fb_call.fail => inventory = fb_call.before

\* The store call of get_inventory_stats (made by get_inventory_items)
\* failed on a collection that holds a document, and the operation ended by
\* the exception.
C11_Witness ==
    /\ Called("get_inventory_stats")
    /\ fb_call.fail
    /\ DOMAIN inventory # {}
    /\ IsRaised(fb_call.out)

\* C12 as stated: a delete of an identifier that is not in the collection
\* returns normally and leaves the collection as it was.
C12_Original ==
    (Called("delete_inventory_item") /\ fb_call.arg \notin DOMAIN fb_call.before) =>
        /\ ~IsRaised(fb_call.out)
        /\ inventory = fb_call.before

\* C12, amended: a delete of an identifier that is not in the collection
\* leaves the collection as it was, with the same records and the same
\* number of them, and raises only when the store call itself failed;
\* otherwise it returns True.  A delete whose store call completes leaves
\* the collection without the identifier and the other records as they
\* were, so a second delete of the same identifier changes nothing.
C12_DeleteIdempotent ==
    Called("delete_inventory_item") =>
        LET id == fb_call.arg
            before == fb_call.before
        IN  /\ id \notin DOMAIN before =>
                 /\ inventory = before
                 /\ Cardinality(DOMAIN inventory) = Cardinality(DOMAIN before)
                 /\ IsRaised(fb_call.out) <=> fb_call.fail
            /\ ~fb_call.fail =>
                 /\ fb_call.out = Returned(TRUE)
                 /\ DOMAIN inventory = DOMAIN before \ {id}
                 /\ \A k \in DOMAIN inventory : inventory[k] = before[k]
            /\ fb_call.fail => inventory = before

\* A delete of an identifier that no document has returned True on a
\* collection that holds documents.
C12_Witness ==
    /\ Called("delete_inventory_item")
    /\ fb_call.arg \notin DOMAIN fb_call.before
    /\ DOMAIN fb_call.before # {}
    /\ fb_call.out = Returned(TRUE)

C16_AddCarriesTimestamp ==
    /\ \A k \in DOMAIN inventory : "timestamp" \in DOMAIN inventory[k]
    /\ (Called("add_inventory_item") /\ ~fb_call.fail) =>
          LET id == fb_call.out.value.id
              given == fb_call.arg
          IN  /\ id \in DOMAIN inventory
              /\ id \notin DOMAIN fb_call.before
              /\ DOMAIN inventory[id] = DOMAIN given \cup {"timestamp"}
              /\ \A f \in DOMAIN given : inventory[id][f] = given[f]
              /\ "timestamp" \notin DOMAIN given =>
                     inventory[id].timestamp = IsoFormat(clock)
              /\ \A k \in DOMAIN fb_call.before : inventory[k] = fb_call.before[k]

\* An add stored the timestamp of its caller, and the collection also holds
\* a document that was given the reading of the clock.
C16_Witness ==
    /\ Called("add_inventory_item")
    /\ ~fb_call.fail
    /\ "timestamp" \in DOMAIN fb_call.arg
    /\ inventory[fb_call.out.value.id].timestamp = fb_call.arg.timestamp
    /\ \E k \in DOMAIN fb_call.before : fb_call.before[k].timestamp = IsoFormat(1)

(***************************************************************************)
(* AttributeMatcher: the properties.                                       *)
(***************************************************************************)
MatcherDone == m_pc = "done"
CandidateSet == { m_candidates[k] : k \in 1 .. Len(m_candidates) }

\* The highest score among the first n candidates.
HighestScore(n) ==
    LET scores == { Score(m_candidates[k], Blob(m_record)) : k \in 1 .. n } \cup {0}
    IN  CHOOSE x \in scores : \A y \in scores : y <= x

\* C17: called with a list that is not empty, the matcher returns a name of
\* the list or the 'not found' sentinel and nothing else, and it returns a
\* name only when the score of that name is above zero.
C17_MemberOrNotFound ==
    (MatcherDone /\ Len(m_candidates) > 0) =>
        /\ m_result \in CandidateSet \cup { NotFoundSentinel }
        /\ m_result # InventoryEmpty
        /\ m_result \in CandidateSet => Score(m_result, Blob(m_record)) > 0
        /\ m_result = NotFoundSentinel <=> HighestScore(Len(m_candidates)) = 0

\* The matcher returned a name that has a capital letter, from a list in
\* which a name before it scores zero.
C17_Witness ==
    /\ MatcherDone
    /\ m_result \in CandidateSet
    /\ \E k \in 1 .. Len(m_result) : m_result[k] \in Upper
    /\ Len(m_candidates) > 1
    /\ Score(m_candidates[1], Blob(m_record)) = 0

\* C18: called with the empty list, the matcher returns the 'inventory
\* empty' sentinel in its first step, having scored nothing; the result is
\* not the 'not found' sentinel, and the call ends.
C18_EmptyInventory ==
    /\ (m_pc # "start" /\ Len(m_candidates) = 0) =>
          /\ MatcherDone
          /\ m_result = InventoryEmpty
          /\ m_result # NotFoundSentinel
          /\ m_scored = << >>
          /\ m_i = 0
    /\ (MatcherDone /\ Len(m_candidates) > 0) => m_result # InventoryEmpty

\* The matcher was called with a complete record and the empty list, and
\* returned.
C18_Witness ==
    /\ MatcherDone
    /\ Len(m_candidates) = 0
    /\ "features" \in DOMAIN m_record
    /\ m_result = InventoryEmpty

\* C19: while it scores, the matcher holds the earliest of the candidates
\* that have the highest score so far, when that score is above zero; so
\* on a tie the earlier candidate is returned, and a later candidate took
\* its place only with a strictly higher score.
C19_FirstSeenWins ==
    (m_pc \in {"loop", "done"} /\ Len(m_candidates) > 0) =>
        LET top == HighestScore(m_i)
            first == CHOOSE k \in 1 .. m_i :
                       /\ Score(m_candidates[k], Blob(m_record)) = top
                       /\ \A j \in 1 .. k - 1 :
                              Score(m_candidates[j], Blob(m_record)) < top
        IN  /\ m_best_score = top
            /\ top > 0 => m_best = m_candidates[first]
            /\ top = 0 => m_best = NoneText
            /\ (MatcherDone /\ top > 0) => m_result = m_candidates[first]

\* Two different names have the highest score, which is above zero, and the
\* matcher returned the one that comes first in the list.
C19_Witness ==
    /\ MatcherDone
    /\ \E j, k \in 1 .. Len(m_candidates) :
          /\ j < k
          /\ m_candidates[j] # m_candidates[k]
          /\ Score(m_candidates[j], Blob(m_record)) = HighestScore(Len(m_candidates))
          /\ Score(m_candidates[k], Blob(m_record)) = HighestScore(Len(m_candidates))
          /\ HighestScore(Len(m_candidates)) > 0
          /\ m_result = m_candidates[j]
          /\ \A i \in 1 .. j - 1 :
                 Score(m_candidates[i], Blob(m_record)) < HighestScore(Len(m_candidates))

(***************************************************************************)
(* Properties of streamlit_app.py.                                         *)
(***************************************************************************)
\* The operations the last run of session t invoked.
InvokedBy(t) == { session[t].invoked[i] : i \in 1..Len(session[t].invoked) }

\* The last run of session t got past the check of line 98.
Serving(t) == session[t].open /\ ~session[t].halted

\* C14: in every script run, no detector, store or AI operation is invoked
\* while any of yolo_model, firebase or gemini is None; such a run shows
\* the error and renders no widget of any page.
C14_HaltsBeforePageLogic ==
    \A t \in Sessions :
        /\ session[t].invoked # << >> =>
             /\ session[t].yolo_model # None
             /\ session[t].firebase # None
             /\ session[t].gemini # None
        /\ \A c \in InvokedBy(t) : c.handle # None
        /\ (session[t].open
              /\ (session[t].yolo_model = None \/ session[t].firebase = None
                    \/ session[t].gemini = None)) =>
             /\ session[t].halted
             /\ session[t].offered = {}
             /\ session[t].shown = { "Error al inicializar los servicios" }

\* A run that halted at line 100 with the detector loaded and the services
\* missing.
C14_Witness ==
    \E t \in Sessions :
        /\ session[t].open /\ session[t].halted
        /\ session[t].yolo_model # None /\ session[t].firebase = None
        /\ session[t].invoked = << >>

\* C15: the Firebase app is initialized at most once whatever the number of
\* FirebaseUtils constructions, initialize_services builds its FirebaseUtils
\* and its GeminiUtils at most once, and every run of every session holds
\* the handles it built.
C15_Singletons ==
    /\ made.apps <= 1 /\ firebase_apps <= 1
    /\ made.services <= 1 /\ made.firebase <= 1 /\ made.gemini <= 1
    /\ made.yolo <= 1
    /\ \A t \in Sessions :
          session[t].open =>
              /\ services_cache.hit
              /\ << session[t].firebase, session[t].gemini >> = services_cache.value
              /\ yolo_cache.hit /\ session[t].yolo_model = yolo_cache.value
    /\ \A t, u \in Sessions :
          Serving(t) /\ Serving(u) =>
              /\ session[t].firebase = session[u].firebase
              /\ session[t].gemini = session[u].gemini

\* Two sessions served after reruns, and a FirebaseUtils and a GeminiUtils
\* built again outside the script.
C15_Witness ==
    /\ \A t \in Sessions : Serving(t) /\ session[t].trigger # None
    /\ made.firebase_other >= 1 /\ made.gemini_other >= 1
    /\ made.apps = 1 /\ made.firebase = 1 /\ made.gemini = 1

\* The analyse button, the save button and the input of the pages that
\* analyse and save.
AnalysePages ==
    { [page |-> "Camara en Vivo", input |-> "picture",
       analyse |-> "Analizar con IA", save |-> "Guardar en Inventario"],
      [page |-> "Subir Imagen", input |-> "uploaded_file",
       analyse |-> "Analizar con Gemini AI", save |-> "Guardar en Inventario"],
      [page |-> "Analisis de Texto", input |-> "text_input",
       analyse |-> "Analizar Descripcion", save |-> "Guardar Analisis"] }

\* The last run of session t was caused by a click on the analyse button
\* of page a, its input present.
AnalyseClicked(t, a) ==
    /\ Serving(t) /\ session[t].page = a.page
    /\ session[t][a.input] /\ session[t].trigger = a.analyse

\* The last run of session t was caused by a click on the save button of
\* page a.
SaveClicked(t, a) ==
    Serving(t) /\ session[t].page = a.page /\ session[t].trigger = a.save

\* The last run of session t saved a record.
Saved(t) ==
    /\ \E c \in InvokedBy(t) :
          c.on = "firebase" /\ c.op = "save_inventory_item" /\ c.out = "returned"
    /\ "Guardado en inventario" \in session[t].shown

\* C20: the run of a click on the analyse button shows the analysis and
\* the save button, and the run of a click on the save button invokes the
\* store's save operation and shows the success message.
C20_Original ==
    \A t \in Sessions, a \in AnalysePages :
        /\ AnalyseClicked(t, a) =>
              "analysis" \in session[t].shown /\ a.save \in session[t].offered
        /\ SaveClicked(t, a) => Saved(t)

\* C21: the run caused by ticking the confirmation checkbox, rendered by a
\* press of 'Limpiar Base de Datos', clears the database, and no other run
\* reaches the deletion of this control.
C21_Original ==
    \A t \in Sessions :
        (Serving(t) /\ session[t].page = "Base de Datos") =>
            ("Base de datos limpiada" \in session[t].shown
                <=> session[t].trigger = "Confirmar eliminacion")

\* A start of the process failed: the detector or the services are cached
\* as None.
StartupFailed ==
    \/ yolo_cache.hit /\ yolo_cache.value = None
    \/ services_cache.hit /\ services_cache.value = << None, None >>

\* C27: once load_yolo_model or initialize_services has failed, no later
\* step runs the failed initialization again, every later script run halts
\* at the service check, and the cached services are both handles or both
\* None.
C27_StartupFailureSticky ==
    [][/\ (yolo_cache.hit /\ yolo_cache.value = None) =>
             yolo_cache' = yolo_cache /\ made'.yolo = made.yolo
       /\ (services_cache.hit /\ services_cache.value = << None, None >>) =>
             /\ services_cache' = services_cache
             /\ made'.services = made.services
             /\ made'.firebase = made.firebase /\ made'.gemini = made.gemini
       /\ StartupFailed =>
             \A t \in Sessions :
                 session'[t] # session[t] =>
                     /\ session'[t].halted
                     /\ session'[t].invoked = << >>
                     /\ session'[t].offered = {}
       /\ services_cache'.hit =>
             (services_cache'.value[1] = None <=> services_cache'.value[2] = None)
      ]_vars

\* FirebaseUtils was built and GeminiUtils failed: both handles are None in
\* two sessions that halted, the second after the failure was cached.
C27_Witness ==
    /\ services_cache.hit /\ services_cache.value = << None, None >>
    /\ yolo_cache.hit /\ yolo_cache.value # None
    /\ made.services = 1 /\ made.firebase = 1 /\ made.gemini = 0
    /\ \A t \in Sessions : session[t].open /\ session[t].halted

\* C29: every operation a script run invokes on a handle is a method of
\* the handle's class, so no invocation ends in an AttributeError.
C29_Original ==
    \A t \in Sessions :
        \A c \in InvokedBy(t) :
            c.op \in MethodsOf(c.on) /\ c.out # "AttributeError"

\* The sum of the counts of a counting dict.
RECURSIVE SumCounts(_)
SumCounts(f) ==
    IF DOMAIN f = {} THEN 0
    ELSE LET k == CHOOSE x \in DOMAIN f : TRUE
         IN  f[k] + SumCounts([x \in DOMAIN f \ { k } |-> f[x]])

\* C28: get_inventory_stats, the store answering, returns total_items equal
\* to the number of records of the collection, per-model counts that sum to
\* it and per-category counts that sum to no more.
C28_Original ==
    (Called("get_inventory_stats") /\ ~fb_call.fail) =>
        /\ ~IsRaised(fb_call.out)
        /\ fb_call.out.value.total_items = Cardinality(DOMAIN fb_call.before)
        /\ SumCounts(fb_call.out.value.models_used) = fb_call.out.value.total_items
        /\ SumCounts(fb_call.out.value.categories) <= fb_call.out.value.total_items

(***************************************************************************)
(* Properties of the detections shown (camera page, app.py).               *)
(***************************************************************************)
\* What the detector returned for the picture, as label and confidence.
Detected == [k \in 1 .. Len(cam.boxes) |->
                [label |-> Names[cam.boxes[k].cls], confidence |-> cam.boxes[k].conf]]

\* The analysis of the picture has ended without an exception.
CameraDone == cam.pc = "done" /\ ~cam.raises

\* C22: the detections are exactly the detector's boxes whose confidence is
\* at or above the threshold, in detector order; the same boxes and no
\* other are drawn and listed, and when there is none the warning is shown
\* in the place of the detections.
C22_DetectionsAtOrAboveThreshold ==
    /\ cam.pc \in { "boxes", "done" } =>
          /\ \A k \in 1 .. Len(cam.detections) :
                cam.detections[k].confidence >= cam.confidence_threshold
          /\ \A k \in 1 .. Len(cam.annotated_image) :
                cam.annotated_image[k].conf >= cam.confidence_threshold
    /\ CameraDone =>
          /\ cam.detections =
                SelectSeq(Detected, LAMBDA d : d.confidence >= cam.confidence_threshold)
          /\ cam.annotated_image =
                [k \in 1 .. Len(cam.detections) |->
                    [label |-> cam.detections[k].label,
                     conf |-> cam.detections[k].confidence]]
          /\ IF cam.detections = << >>
             THEN cam.shown = << "No se detectaron objetos" >> /\ cam.listed = << >>
             ELSE /\ cam.shown[1] = "Detecciones YOLO"
                  /\ cam.listed = cam.detections
                  /\ \A k \in 1 .. Len(cam.shown) : cam.shown[k] # "No se detectaron objetos"

\* Two boxes, the first below the threshold and dropped, the second at the
\* threshold exactly and kept.
C22_Witness ==
    /\ CameraDone
    /\ Len(cam.boxes) = 2
    /\ cam.boxes[1].conf < cam.confidence_threshold
    /\ cam.boxes[2].conf = cam.confidence_threshold
    /\ Len(cam.detections) = 1
    /\ cam.shown[1] = "Detecciones YOLO"

\* The detections app.py drew in the highlight colour.
Highlighted ==
    { k \in 1 .. Len(bodega.colores) : bodega.colores[k] = "color_resaltado" }

\* The run of app.py has ended, an image uploaded.
BodegaDone == bodega.pc = "done" /\ bodega.imagen_subida

\* C23: for a non-empty search text the detections drawn in the highlight
\* colour are those whose label contains the text whatever the case, and
\* they are the ones counted and located in the description; for an empty
\* text none is highlighted and the counts of the summary add up to the
\* number of detections.
C23_HighlightEqualsCount ==
    BodegaDone =>
        /\ Len(bodega.colores) = Len(bodega.detecciones)
        /\ IF bodega.producto_a_buscar # << >>
           THEN /\ bodega.descripcion = "busqueda"
                /\ Highlighted =
                      { k \in 1 .. Len(bodega.detecciones) :
                          Contains(lower(bodega.detecciones[k].etiqueta),
                                   lower(bodega.producto_a_buscar)) }
                /\ bodega.cantidad = Cardinality(Highlighted)
                /\ { bodega.ubicaciones[k] : k \in 1 .. Len(bodega.ubicaciones) } =
                      { << bodega.detecciones[k].caja[1], bodega.detecciones[k].caja[2] >> :
                          k \in Highlighted }
           ELSE /\ bodega.descripcion = "resumen"
                /\ Highlighted = {}
                /\ SumCounts(bodega.resumen) = Len(bodega.detecciones)

\* A search text in capitals that two of the four labels contain in another
\* case.
C23_Witness ==
    /\ BodegaDone
    /\ bodega.producto_a_buscar # << >>
    /\ bodega.producto_a_buscar # lower(bodega.producto_a_buscar)
    /\ bodega.cantidad = 2
    /\ Highlighted = { 1, 4 }

(***************************************************************************)
(* Properties of the results and of current_model over many invocations.   *)
(***************************************************************************)
\* C24: every result of generate_content is well-formed: success is True
\* exactly when error is None and response is a non-empty text, model_used
\* then naming the model whose call returned the text; a failure has
\* response None and a non-empty error message.
C24_Original ==
    \A t \in Threads :
        (Done(t) /\ gc_result[t] # NoResult) =>
            LET r == gc_result[t]
            IN  /\ ~IsRaised(r)
                /\ r.success <=>
                      (r.error = NoneText /\ r.response # NoneText
                         /\ TruthyText(r.response))
                /\ r.success =>
                      /\ "model_used" \in DOMAIN r
                      /\ Len(attempts[t]) > 0
                      /\ attempts[t][Len(attempts[t])].out = "returned"
                      /\ r.model_used = attempts[t][Len(attempts[t])].model
                /\ ~r.success =>
                      r.response = NoneText /\ r.error # NoneText /\ Len(r.error) > 0

\* The attempt that a step of thread t adds to its history, if any.
Attempted(t) == Len(attempts'[t]) > Len(attempts[t])

\* C25: on the kept instance current_model, once set, stays a member of the
\* list and its position never decreases, over all invocations; a model
\* whose generation attempt raised and that has a successor is never tried
\* again, and once the last model has raised every later attempt is on the
\* last model.
C25_CurrentModelNeverGoesBack ==
    [][/\ Truthy(current_model[Cached]) =>
             /\ InModels(current_model'[Cached])
             /\ Pos(current_model'[Cached]) >= Pos(current_model[Cached])
       /\ Truthy(current_model'[Cached]) => InModels(current_model'[Cached])
       /\ \A t \in Threads :
             (self[t] = Cached /\ Attempted(t)) =>
                 LET a == attempts'[t][Len(attempts'[t])]
                 IN  /\ a.model \in failed_on => a.model = models[Len(models)]
                     /\ models[Len(models)] \in failed_on => a.model = models[Len(models)]
      ]_vars

\* Every model has raised, earlier invocations having moved current_model
\* to the last one; a later invocation starts there and calls the last
\* model only, which answers.
C25_Witness ==
    \E t \in Threads :
        /\ Done(t) /\ self[t] = Cached
        /\ start_model[t] = models[Len(models)]
        /\ failed_on = { models[k] : k \in 1 .. Len(models) }
        /\ Len(attempts[t]) = 1
        /\ attempts[t][1].model = models[Len(models)]
        /\ attempts[t][1].out = "returned"
        /\ current_model[Cached] = models[Len(models)]

\* An invocation on the kept instance has called a model and has not yet
\* handed its result to the caller.
Called_Model(t) == self[t] = Cached /\ pc[t] \in { "L123", "L126", "except", "done" }

\* C26: with two invocations running at once on the kept instance, every
\* identifier before current_model has been tried and seen to fail by some
\* invocation, by the probe or by a generation attempt; the model an
\* invocation builds is the one it selected, and the model_used it reports
\* is the model it called.
C26_Original ==
    /\ \A t \in Racers :
          /\ (Called_Model(t) /\ Truthy(model_name[t]) /\ Truthy(model[t])) =>
                model[t] = model_name[t]
          /\ (Done(t) /\ gc_result[t] # NoResult /\ "model_used" \in DOMAIN gc_result[t]) =>
                gc_result[t].model_used = model[t]
    /\ \A k \in 1 .. Pos(current_model[Cached]) - 1 : models[k] \in failed_on

====
